---- MODULE Spec2Model ----
(***************************************************************************)
(* Data-flow graph (DFG) core of src/src/V3Dfg.h: DfgGraph, DfgVertex,     *)
(* DfgEdge, the per-vertex user data (generation counters) and the vertex  *)
(* iteration helpers.                                                      *)
(*                                                                         *)
(* The heap of the program is kept in one variable per member; every       *)
(* method is an operator from heap record to heap record, so that a method *)
(* calling another method is the composition of the two operators.  A      *)
(* fatal error (UASSERT) is recorded in 'fatal' and ends the run.          *)
(***************************************************************************)
EXTENDS Integers, Sequences, FiniteSets, TLC

\* ---------------------------------------------------------------- bounds
NumGraphs == 2
NumVertices == 3
NumUserVertices == 1
NumGuards == 2
MaxVal == 1
MaxGen == 2
MaxWalk == 4
MaxCap == 4
HashBits == 12

\* ------------------------------------------------------ program constants
NULL == 0
DefaultValue == 0
UserCntBits == 32

\* A uint32_t is held as its 32-bit pattern read in two's complement, which is
\* the integer range of the checker: 0 .. 2^31 - 1 are themselves, 2^31 .. 2^32 - 1
\* are Int32Min .. -1.  Only ++, == and the test against 0 are applied to it.
Int32Max == (2 ^ (UserCntBits - 2) - 1) + 2 ^ (UserCntBits - 2)
Int32Min == (-Int32Max) - 1
\* ++x on a uint32_t
Inc32(x) == IF x = Int32Max THEN Int32Min ELSE x + 1
\* a <= b on two uint32_t
Le32(a, b) == IF (a < 0) = (b < 0) THEN a <= b ELSE b < 0
\* The uint32_t 2^32 - 1
UserCntMax == -1

Graphs == 1 .. NumGraphs
Vertices == 1 .. NumVertices
Guards == 1 .. NumGuards
Values == 0 .. MaxVal
SlotIdx == 0 .. 1
\* The edges a vertex owns are numbered: a vertex of fixed arity has its array
\* m_srcs at 0, a vertex of variable arity has its buffer m_srcsp at 0 or at
\* MaxCap, a new buffer being allocated while the old one still exists
EdgeIdx == 0 .. 2 * MaxCap - 1
Edges == Vertices \X EdgeIdx
NoEdge == <<NULL, 0>>
UndefEdge == <<NULL, 1>>

\* VDfgType tags used: variable, constant, one unary and one binary operation
NoType == "none"
Types == {"VarPacked", "Const", "Not", "Add", "ArraySel", "Variadic"}
IsArraySel(t) == t = "ArraySel"
IsVariadic(t) == t = "Variadic"
IsConst(t) == t = "Const"
IsVertexVar(t) == t = "VarPacked"

\* Number of operand edges of a vertex of the given type
Arity(t) ==
    CASE t = "Not" -> 1
      [] t = "Add" -> 2
      [] t = "ArraySel" -> 2
      [] OTHER -> 0

NoFatal == ""
FatalConflict == "Conflicting use of DfgVertex user data"
FatalOverflow == "'m_userCnt' overflow"
FatalMoveEmpty == "Moving from empty"
FatalNotReserved == "DfgVertex user data used without reserving"
FatalStale == "DfgVertex user data is stale"
FatalInconsistent == "Inconsistent"
FatalConnected == "Connected source"
OutOfBuffer == "edge outside its buffer used"
\* The run was ended by the system: a null pointer was dereferenced
Crashed == "null pointer dereferenced"
Diverged == "recursion without end"

\* ------------------------------------------------------------------ state
VARIABLES
    m_varVertices,      \* DfgGraph::m_varVertices, per graph, head first
    m_constVertices,    \* DfgGraph::m_constVertices
    m_opVertices,       \* DfgGraph::m_opVertices
    m_size,             \* DfgGraph::m_size
    m_userCurrent,      \* DfgGraph::m_userCurrent
    m_userCnt,          \* DfgGraph::m_userCnt
    m_graphp,           \* DfgVertex::m_graphp (NULL: in no graph)
    m_type,             \* DfgVertex::m_type (NoType: not allocated)
    v_userCnt,          \* DfgVertex::m_userCnt
    m_userDataStorage,  \* DfgVertex::m_userDataStorage
    m_sinksp,           \* DfgVertex::m_sinksp with DfgEdge::m_nextp/m_prevp: the sink list
    m_sourcep,          \* DfgEdge::m_sourcep
    m_sinkp,            \* DfgEdge::m_sinkp
    m_srcsp,            \* DfgVertexVariadic::m_srcsp: the number of its first edge
    m_srcCnt,           \* DfgVertexVariadic::m_srcCnt
    m_srcCap,           \* DfgVertexVariadic::m_srcCap
    guardLive,          \* the UserDataInUse objects that exist
    guardGraphp,        \* UserDataInUse::m_graphp
    VL_DEBUG,           \* whether this is a debug build
    fatal,              \* message of the fatal error that ended the run
    lastCall,           \* history: the call made by the last step
    touched,            \* history: vertices touched in their graph's session in use
    shadow,             \* history: value last stored through user()/setUser()
    iter,               \* forEachVertex in progress: its local variables
    visited,            \* history: vertices passed to the callback, in order
    walk                \* a forEach helper of DfgVertex in progress: its local
                        \* variables, and the history of its callbacks

heapVars == <<m_varVertices, m_constVertices, m_opVertices, m_size, m_userCurrent,
              m_userCnt, m_graphp, m_type, v_userCnt, m_userDataStorage, m_sinksp,
              m_sourcep, m_sinkp, m_srcsp, m_srcCnt, m_srcCap, fatal>>
guardVars == <<guardLive, guardGraphp>>
userHist == <<touched, shadow>>
iterVars == <<iter, visited, walk>>
vars == <<heapVars, guardVars, VL_DEBUG, lastCall, userHist, iterVars>>

\* The heap as one record
Heap ==
    [varV |-> m_varVertices, constV |-> m_constVertices, opV |-> m_opVertices,
     size |-> m_size, userCurrent |-> m_userCurrent, userCnt |-> m_userCnt,
     graphp |-> m_graphp, type |-> m_type, vUserCnt |-> v_userCnt,
     storage |-> m_userDataStorage, sinks |-> m_sinksp, sourcep |-> m_sourcep,
     sinkp |-> m_sinkp, srcsp |-> m_srcsp, srcCnt |-> m_srcCnt, srcCap |-> m_srcCap,
     fatal |-> fatal]

\* The next state's heap is h
Commit(h) ==
    /\ m_varVertices' = h.varV
    /\ m_constVertices' = h.constV
    /\ m_opVertices' = h.opV
    /\ m_size' = h.size
    /\ m_userCurrent' = h.userCurrent
    /\ m_userCnt' = h.userCnt
    /\ m_graphp' = h.graphp
    /\ m_type' = h.type
    /\ v_userCnt' = h.vUserCnt
    /\ m_userDataStorage' = h.storage
    /\ m_sinksp' = h.sinks
    /\ m_sourcep' = h.sourcep
    /\ m_sinkp' = h.sinkp
    /\ m_srcsp' = h.srcsp
    /\ m_srcCnt' = h.srcCnt
    /\ m_srcCap' = h.srcCap
    /\ fatal' = h.fatal

\* UASSERT(cond, msg): the run ends with msg when cond is false
Fail(h, msg) == [h EXCEPT !.fatal = msg]

\* --------------------------------------------------------------- sequences
RECURSIVE SeqRemove(_, _)
SeqRemove(s, x) ==
    IF s = <<>> THEN <<>>
    ELSE IF Head(s) = x THEN SeqRemove(Tail(s), x)
    ELSE <<Head(s)>> \o SeqRemove(Tail(s), x)

SeqSet(s) == {s[i] : i \in 1 .. Len(s)}
SeqCount(s, x) == Cardinality({i \in 1 .. Len(s) : s[i] = x})

\* V3List<T>::begin
ListBegin(s) == IF s = <<>> THEN NULL ELSE Head(s)

\* V3ListEnt<T>::nextp of element x of list s (NULL at the tail, and NULL for an
\* element that was unlinked: unlink clears its links)
ListNext(s, x) ==
    IF \E i \in 1 .. Len(s) - 1 : s[i] = x
    THEN s[(CHOOSE i \in 1 .. Len(s) - 1 : s[i] = x) + 1]
    ELSE NULL

\* V3ListEnt<T>::pushBack
ListPushBack(s, x) == Append(s, x)

\* V3ListEnt<T>::unlink
ListUnlink(s, x) == SeqRemove(s, x)

\* ------------------------------------------------------------------ graph
\* mutant: the tag is set from the graph's counter of the same name
addVertex_TagFromGraph(h, g, v) ==
    LET t == h.type[v] IN
    [h EXCEPT !.size[g] = @ + 1,
              !.constV[g] = IF IsConst(t) THEN ListPushBack(@, v) ELSE @,
              !.varV[g] = IF ~IsConst(t) /\ IsVertexVar(t) THEN ListPushBack(@, v) ELSE @,
              !.opV[g] = IF ~IsConst(t) /\ ~IsVertexVar(t) THEN ListPushBack(@, v) ELSE @,
              !.vUserCnt[v] = h.userCnt[g],
              !.graphp[v] = g]

\* mutant: a constant is put in the list of the operations
addVertex_ConstAsOp(h, g, v) ==
    LET t == h.type[v] IN
    [h EXCEPT !.size[g] = @ + 1,
              !.varV[g] = IF IsVertexVar(t) THEN ListPushBack(@, v) ELSE @,
              !.opV[g] = IF ~IsVertexVar(t) THEN ListPushBack(@, v) ELSE @,
              !.vUserCnt[v] = 0,
              !.graphp[v] = g]

\* DfgGraph::addVertex (assumes v is in no graph)
addVertex(h, g, v) ==
    LET t == h.type[v] IN
    [h EXCEPT !.size[g] = @ + 1,
              !.constV[g] = IF IsConst(t) THEN ListPushBack(@, v) ELSE @,
              !.varV[g] = IF ~IsConst(t) /\ IsVertexVar(t) THEN ListPushBack(@, v) ELSE @,
              !.opV[g] = IF ~IsConst(t) /\ ~IsVertexVar(t) THEN ListPushBack(@, v) ELSE @,
              !.vUserCnt[v] = 0,
              !.graphp[v] = g]

\* mutant: the back-reference to the graph is left as it was
removeVertex_KeepsGraphp(h, g, v) ==
    LET t == h.type[v] IN
    [h EXCEPT !.size[g] = @ - 1,
              !.constV[g] = IF IsConst(t) THEN ListUnlink(@, v) ELSE @,
              !.varV[g] = IF ~IsConst(t) /\ IsVertexVar(t) THEN ListUnlink(@, v) ELSE @,
              !.opV[g] = IF ~IsConst(t) /\ ~IsVertexVar(t) THEN ListUnlink(@, v) ELSE @,
              !.vUserCnt[v] = 0]

\* mutant: the size is left as it was
removeVertex_KeepsSize(h, g, v) ==
    LET t == h.type[v] IN
    [h EXCEPT !.constV[g] = IF IsConst(t) THEN ListUnlink(@, v) ELSE @,
              !.varV[g] = IF ~IsConst(t) /\ IsVertexVar(t) THEN ListUnlink(@, v) ELSE @,
              !.opV[g] = IF ~IsConst(t) /\ ~IsVertexVar(t) THEN ListUnlink(@, v) ELSE @,
              !.vUserCnt[v] = 0,
              !.graphp[v] = NULL]

\* DfgGraph::removeVertex (assumes v is in g)
removeVertex(h, g, v) ==
    LET t == h.type[v] IN
    [h EXCEPT !.size[g] = @ - 1,
              !.constV[g] = IF IsConst(t) THEN ListUnlink(@, v) ELSE @,
              !.varV[g] = IF ~IsConst(t) /\ IsVertexVar(t) THEN ListUnlink(@, v) ELSE @,
              !.opV[g] = IF ~IsConst(t) /\ ~IsVertexVar(t) THEN ListUnlink(@, v) ELSE @,
              !.vUserCnt[v] = 0,
              !.graphp[v] = NULL]

\* DfgVertex::DfgVertex with DfgVertexWithArity::DfgVertexWithArity: a vertex of
\* type t is allocated in slot v and added to g; m_userDataStorage is not
\* initialized and holds whatever the memory held (garbage)
construct(h, v, g, t, garbage) ==
    LET h1 == [h EXCEPT !.type[v] = t,
                        !.storage[v] = garbage,
                        !.vUserCnt[v] = 0,
                        !.sinks[v] = <<>>,
                        !.sinkp = [e \in Edges |->
                                     IF e[1] = v /\ e[2] < Arity(t) THEN v ELSE @[e]]]
    IN addVertex(h1, g, v)

\* The vertices in the lists of graph g
Contained(h, g) == SeqSet(h.varV[g]) \cup SeqSet(h.constV[g]) \cup SeqSet(h.opV[g])

\* mutant: the tags of the vertices moved are left as they were
addGraph_KeepsTags(h, g, other) ==
    LET moved == Contained(h, other) IN
    [h EXCEPT !.size[g] = @ + h.size[other],
              !.size[other] = 0,
              !.varV[g] = @ \o h.varV[other],
              !.varV[other] = <<>>,
              !.constV[g] = @ \o h.constV[other],
              !.constV[other] = <<>>,
              !.opV[g] = @ \o h.opV[other],
              !.opV[other] = <<>>,
              !.graphp = [v \in Vertices |-> IF v \in moved THEN g ELSE @[v]]]

\* DfgGraph::addGraph, other a graph that is not g: the lists of other are
\* appended to those of g, and every vertex moved is made a vertex of g as
\* addVertex would
addGraph(h, g, other) ==
    LET moved == Contained(h, other) IN
    [h EXCEPT !.size[g] = @ + h.size[other],
              !.size[other] = 0,
              !.varV[g] = @ \o h.varV[other],
              !.varV[other] = <<>>,
              !.constV[g] = @ \o h.constV[other],
              !.constV[other] = <<>>,
              !.opV[g] = @ \o h.opV[other],
              !.opV[other] = <<>>,
              !.vUserCnt = [v \in Vertices |-> IF v \in moved THEN 0 ELSE @[v]],
              !.graphp = [v \in Vertices |-> IF v \in moved THEN g ELSE @[v]]]

\* -------------------------------------------------------------- user data
\* mutant: the overflow of the generation counter is not checked
userDataInUse_NoOverflowCheck(h, g) ==
    IF h.userCurrent[g] # 0 THEN Fail(h, FatalConflict)
    ELSE LET cnt == Inc32(h.userCnt[g]) IN
         [h EXCEPT !.userCnt[g] = cnt, !.userCurrent[g] = cnt]

\* mutant: a session in use is not detected
userDataInUse_NoConflictCheck(h, g) ==
    LET cnt == Inc32(h.userCnt[g])
        h1 == [h EXCEPT !.userCnt[g] = cnt]
    IN IF cnt = 0 THEN Fail(h1, FatalOverflow)
       ELSE [h1 EXCEPT !.userCurrent[g] = cnt]

\* mutant: the generation counter is not incremented
userDataInUse_NoIncrement(h, g) ==
    IF h.userCurrent[g] # 0 THEN Fail(h, FatalConflict)
    ELSE IF h.userCnt[g] = 0 THEN Fail(h, FatalOverflow)
    ELSE [h EXCEPT !.userCurrent[g] = h.userCnt[g]]

\* DfgGraph::userDataInUse, up to the construction of the returned guard
userDataInUse(h, g) ==
    IF h.userCurrent[g] # 0 THEN Fail(h, FatalConflict)
    ELSE LET cnt == Inc32(h.userCnt[g])
             h1 == [h EXCEPT !.userCnt[g] = cnt]
         IN IF cnt = 0 THEN Fail(h1, FatalOverflow)
            ELSE [h1 EXCEPT !.userCurrent[g] = cnt]

\* mutant: the destructor leaves the marker set
guardDestructor_KeepsMarker(h, graphp) == h

\* DfgGraph::UserDataInUse::~UserDataInUse of a guard whose m_graphp is graphp
guardDestructor(h, graphp) ==
    IF graphp # NULL THEN [h EXCEPT !.userCurrent[graphp] = 0] ELSE h

\* mutant: the slot is constructed afresh on every call
user_AlwaysInit(h, v) ==
    LET userCurrent == h.userCurrent[h.graphp[v]] IN
    IF VL_DEBUG /\ userCurrent = 0 THEN Fail(h, FatalNotReserved)
    ELSE [h EXCEPT !.vUserCnt[v] = userCurrent, !.storage[v] = DefaultValue]

\* mutant: the slot is tagged but not constructed
user_NoInit(h, v) ==
    LET userCurrent == h.userCurrent[h.graphp[v]] IN
    IF VL_DEBUG /\ userCurrent = 0 THEN Fail(h, FatalNotReserved)
    ELSE [h EXCEPT !.vUserCnt[v] = userCurrent]

\* DfgVertex::user<T>: the heap after the call; the reference returned is to
\* storage[v]
user(h, v) ==
    LET userCurrent == h.userCurrent[h.graphp[v]] IN
    IF VL_DEBUG /\ userCurrent = 0 THEN Fail(h, FatalNotReserved)
    ELSE IF h.vUserCnt[v] # userCurrent
         THEN [h EXCEPT !.vUserCnt[v] = userCurrent, !.storage[v] = DefaultValue]
         ELSE h

\* mutant: the tag is not compared with the generation in use
getUser_NoStaleCheck(h, v) ==
    LET userCurrent == h.userCurrent[h.graphp[v]] IN
    IF VL_DEBUG /\ userCurrent = 0 THEN Fail(h, FatalNotReserved)
    ELSE h

\* DfgVertex::getUser<T>: the heap after the call; the reference returned is to
\* storage[v]
getUser(h, v) ==
    LET userCurrent == h.userCurrent[h.graphp[v]] IN
    IF VL_DEBUG /\ userCurrent = 0 THEN Fail(h, FatalNotReserved)
    ELSE IF VL_DEBUG /\ h.vUserCnt[v] # userCurrent THEN Fail(h, FatalStale)
    ELSE h

\* DfgVertex::setUser<T>
setUser(h, v, value) ==
    LET userCurrent == h.userCurrent[h.graphp[v]] IN
    IF VL_DEBUG /\ userCurrent = 0 THEN Fail(h, FatalNotReserved)
    ELSE [h EXCEPT !.vUserCnt[v] = userCurrent, !.storage[v] = value]

\* ------------------------------------------------------------------ edges
\* DfgEdge::unlinkSource of an edge that has a source
unlinkSource(h, e) ==
    [h EXCEPT !.sinks[h.sourcep[e]] = SeqRemove(@, e),
              !.sourcep[e] = NULL]

\* DfgEdge::relinkSource
relinkSource(h, e, newSourcep) ==
    LET h1 == IF h.sourcep[e] # NULL THEN unlinkSource(h, e) ELSE h IN
    [h1 EXCEPT !.sinks[newSourcep] = Append(@, e),
               !.sourcep[e] = newSourcep]

\* mutant: the first source edge is relinked whatever the index
relinkSourceIdx_FirstSlot(h, v, Index, newSourcep) ==
    IF h.sinkp[<<v, 0>>] # v THEN Fail(h, FatalInconsistent)
    ELSE relinkSource(h, <<v, 0>>, newSourcep)

\* mutant: the new source is not linked
relinkSourceIdx_OnlyUnlinks(h, v, Index, newSourcep) ==
    IF h.sinkp[<<v, Index>>] # v THEN Fail(h, FatalInconsistent)
    ELSE IF h.sourcep[<<v, Index>>] # NULL THEN unlinkSource(h, <<v, Index>>)
    ELSE h

\* DfgVertexWithArity<Arity>::relinkSource<Index>, Index < Arity
relinkSourceIdx(h, v, Index, newSourcep) ==
    IF h.sinkp[<<v, Index>>] # v THEN Fail(h, FatalInconsistent)
    ELSE relinkSource(h, <<v, Index>>, newSourcep)

\* relinkSource(newSourcep) on each of the edges es, in order
RECURSIVE RelinkAll(_, _, _)
RelinkAll(h, es, newSourcep) ==
    IF es = <<>> THEN h
    ELSE RelinkAll(relinkSource(h, Head(es), newSourcep), Tail(es), newSourcep)

\* mutant: only the first sink edge is relinked
replaceWith_FirstOnly(h, v, newSourcep) ==
    IF h.sinks[v] = <<>> THEN h ELSE relinkSource(h, Head(h.sinks[v]), newSourcep)

\* DfgVertex::replaceWith: every sink edge v has is relinked to newSourcep
replaceWith(h, v, newSourcep) == RelinkAll(h, h.sinks[v], newSourcep)

\* DfgVertex::hasSinks
hasSinks(h, v) == h.sinks[v] # <<>>

\* mutant: one sink is enough
hasMultipleSinks_AnySink(h, v) == h.sinks[v] # <<>>

\* DfgVertex::hasMultipleSinks
hasMultipleSinks(h, v) == h.sinks[v] # <<>> /\ Tail(h.sinks[v]) # <<>>

\* DfgArraySel::bitp: the index operand, source<1>()
bitp(h, v) == h.sourcep[<<v, 1>>]

\* DfgVertex::inlined: the outcomes of the call, "true" or "false" for the
\* value returned.  On an array select with no index operand linked the call
\* reads the type of a vertex through a null pointer, which is undefined: any
\* value may be returned, or the run is ended.
inlined(h, v) ==
    IF ~hasMultipleSinks(h, v) THEN {"true"}
    ELSE IF IsConst(h.type[v]) THEN {"true"}
    ELSE IF IsVertexVar(h.type[v]) THEN {"true"}
    ELSE IF IsArraySel(h.type[v])
         THEN IF bitp(h, v) = NULL THEN {"true", "false", "crash"}
              ELSE IF IsConst(h.type[bitp(h, v)]) THEN {"true"} ELSE {"false"}
    ELSE {"false"}

\* ------------------------------------------------ vertices of variable arity
\* DfgVertexVariadic::sourceEdge
sourceEdge(h, v, idx) == <<v, h.srcsp[v] + idx>>

\* DfgVertexVariadic::allocSources: the n edges from number srcsp on are
\* allocated, each with no source and with the vertex as its sink
allocSources(h, v, srcsp, n) ==
    [h EXCEPT !.sinkp = [e \in Edges |->
                           IF e[1] = v /\ e[2] >= srcsp /\ e[2] < srcsp + n THEN v ELSE @[e]],
              !.sourcep = [e \in Edges |->
                           IF e[1] = v /\ e[2] >= srcsp /\ e[2] < srcsp + n THEN NULL ELSE @[e]]]

\* delete[] of the n edges from number srcsp on
deleteSources(h, v, srcsp, n) ==
    [h EXCEPT !.sinkp = [e \in Edges |->
                           IF e[1] = v /\ e[2] >= srcsp /\ e[2] < srcsp + n THEN NULL ELSE @[e]]]

\* DfgVertexVariadic::DfgVertexVariadic, after DfgVertex::DfgVertex
constructVariadic(h, v, g, initialCapacity) ==
    LET h1 == [h EXCEPT !.type[v] = "Variadic",
                        !.storage[v] = DefaultValue,
                        !.vUserCnt[v] = 0,
                        !.sinks[v] = <<>>,
                        !.srcsp[v] = 0,
                        !.srcCnt[v] = 0,
                        !.srcCap[v] = initialCapacity]
    IN allocSources(addVertex(h1, g, v), v, 0, initialCapacity)

\* mutant: the old edge keeps its source
RECURSIVE growSourcesLoop_KeepsOld(_, _, _, _)
growSourcesLoop_KeepsOld(h, v, newsp, i) ==
    IF i >= h.srcCnt[v] THEN h
    ELSE LET oldp == sourceEdge(h, v, i) IN
         IF h.sourcep[oldp] = NULL THEN growSourcesLoop_KeepsOld(h, v, newsp, i + 1)
         ELSE growSourcesLoop_KeepsOld(relinkSource(h, <<v, newsp + i>>, h.sourcep[oldp]),
                                       v, newsp, i + 1)

\* DfgVertexVariadic::growSources, its loop from index i on: the new edge of
\* every old edge that has a source is linked to that source and the old edge
\* is unlinked
RECURSIVE growSourcesLoop(_, _, _, _)
growSourcesLoop(h, v, newsp, i) ==
    IF i >= h.srcCnt[v] THEN h
    ELSE LET oldp == sourceEdge(h, v, i) IN
         IF h.sourcep[oldp] = NULL THEN growSourcesLoop(h, v, newsp, i + 1)
         ELSE growSourcesLoop(unlinkSource(relinkSource(h, <<v, newsp + i>>, h.sourcep[oldp]),
                                           oldp),
                              v, newsp, i + 1)

\* DfgVertexVariadic::growSources
growSources(h, v) ==
    LET newsp == IF h.srcsp[v] = 0 THEN MaxCap ELSE 0
        h1 == [h EXCEPT !.srcCap[v] = 2 * @]
        h2 == allocSources(h1, v, newsp, h1.srcCap[v])
        h3 == growSourcesLoop(h2, v, newsp, 0)
        h4 == deleteSources(h3, v, h.srcsp[v], h.srcCap[v])
    IN [h4 EXCEPT !.srcsp[v] = newsp]

\* DfgVertexVariadic::addSource: the heap after it
addSource(h, v) ==
    LET h1 == IF h.srcCnt[v] = h.srcCap[v] THEN growSources(h, v) ELSE h IN
    [h1 EXCEPT !.srcCnt[v] = @ + 1]

\* DfgVertexVariadic::addSource: the edge it returns, given the heap after it
addSourceResult(after, v) == sourceEdge(after, v, after.srcCnt[v] - 1)

\* The used slots of v that lie outside its allocated buffer
SlotsOutside(h, v) == {i \in 0 .. h.srcCnt[v] - 1 : i >= h.srcCap[v]}

\* The used slots of v inside its buffer that have a source
SlotsConnected(h, v) ==
    {i \in 0 .. h.srcCnt[v] - 1 : i < h.srcCap[v] /\ h.sourcep[sourceEdge(h, v, i)] # NULL}

\* DfgVertexVariadic::resetSources: the heaps the call can end in.  Every used
\* slot is read; the read of a slot outside the buffer is undefined, it can
\* find a source or none.
resetSources(h, v) ==
    (IF SlotsConnected(h, v) = {} THEN {[h EXCEPT !.srcCnt[v] = 0]} ELSE {})
    \cup (IF SlotsConnected(h, v) # {} \/ SlotsOutside(h, v) # {}
          THEN {Fail(h, FatalConnected)} ELSE {})

\* DfgVertex::fanout: the sink edges of v are counted one by one
fanout(h, v) == Len(h.sinks[v])

\* --------------------------------------------------------------- iteration
\* Every source edge of v that has a source is unlinked, in index order
RECURSIVE UnlinkSources(_, _, _)
UnlinkSources(h, v, i) ==
    IF i >= Arity(h.type[v]) THEN h
    ELSE UnlinkSources(IF h.sourcep[<<v, i>>] # NULL THEN unlinkSource(h, <<v, i>>) ELSE h,
                       v, i + 1)

\* mutant: the source edges of the vertex stay in the sink lists of their sources
unlinkDelete_KeepsSources(h, g, v) ==
    LET h1 == removeVertex(h, g, v) IN
    [h1 EXCEPT !.type[v] = NoType,
               !.storage[v] = DefaultValue,
               !.sinkp = [e \in Edges |-> IF e[1] = v THEN NULL ELSE @[e]]]

\* DfgVertex::unlinkDelete of a vertex of g that has no sinks
unlinkDelete(h, g, v) ==
    LET h1 == removeVertex(UnlinkSources(h, v, 0), g, v) IN
    [h1 EXCEPT !.type[v] = NoType,
               !.storage[v] = DefaultValue,
               !.sinkp = [e \in Edges |-> IF e[1] = v THEN NULL ELSE @[e]]]

\* The vertex lists of a graph, in the order forEachVertex goes through them
ListOf(h, g, L) ==
    CASE L = 1 -> h.varV[g]
      [] L = 2 -> h.constV[g]
      [] OTHER -> h.opV[g]

\* DfgGraph::forEachVertex, the loop conditions: the loop over list L goes on
\* with vtxp, or the next loop begins; list 4 is the end of the function
RECURSIVE LoopHead(_, _, _, _)
LoopHead(h, g, L, vtxp) ==
    IF vtxp # NULL THEN [list |-> L, vtxp |-> vtxp]
    ELSE IF L >= 3 THEN [list |-> 4, vtxp |-> NULL]
    ELSE LoopHead(h, g, L + 1, ListBegin(ListOf(h, g, L + 1)))

\* mutant: the next vertex is read after the callback has run
forEachVertexStep_NextAfterCall(before, after, g, L, vtxp) ==
    LoopHead(after, g, L, ListNext(ListOf(after, g, L), vtxp))

\* DfgGraph::forEachVertex, one round of the loop over list L at vtxp, where
\* the callback turns the heap before into the heap after: nextp is read
\* before f is called, and the loop goes on with it
forEachVertexStep(before, after, g, L, vtxp) ==
    LoopHead(after, g, L, ListNext(ListOf(before, g, L), vtxp))

\* mutant: the function returns at the end of the first list that has a vertex
forEachVertexConstStep_OneList(h, g, L, vtxp) ==
    LET nextp == ListNext(ListOf(h, g, L), vtxp) IN
    IF nextp # NULL THEN [list |-> L, vtxp |-> nextp] ELSE [list |-> 4, vtxp |-> NULL]

\* DfgGraph::forEachVertex const, one round of the loop over list L at vtxp:
\* f is called, which changes nothing, then vtxp->verticesNext() is read
forEachVertexConstStep(h, g, L, vtxp) ==
    LoopHead(h, g, L, ListNext(ListOf(h, g, L), vtxp))

\* DfgGraph::forEachVertex, entry: the first loop begins
forEachVertexBegin(h, g) == LoopHead(h, g, 1, ListBegin(ListOf(h, g, 1)))

\* The edge after e in the list s of edges, NoEdge at its end
EdgeNext(s, e) ==
    IF \E i \in 1 .. Len(s) - 1 : s[i] = e
    THEN s[(CHOOSE i \in 1 .. Len(s) - 1 : s[i] = e) + 1]
    ELSE NoEdge

\* DfgEdge::m_nextp of the edge e, as a read of it gives it: for an edge in a
\* sink list the edge after it.  For an edge that was deleted with its vertex
\* the read is undefined, and for an edge with no source the pointer is
\* whatever the unlinking left in it: UndefEdge stands for every outcome of
\* such a read, and nothing is said of the run from there on.
m_nextp(h, e) ==
    IF h.sinkp[e] = NULL \/ h.sourcep[e] = NULL THEN UndefEdge
    ELSE EdgeNext(h.sinks[h.sourcep[e]], e)

\* DfgVertex::forEachSinkEdge and forEachSink, entry: edgep = m_sinksp
forEachSinkBegin(h, v) == IF h.sinks[v] = <<>> THEN NoEdge ELSE Head(h.sinks[v])

\* mutant: the next edge is read after the callback has run
forEachSinkEdgeStep_NextAfterCall(before, after, edgep) == m_nextp(after, edgep)

\* DfgVertex::forEachSinkEdge, one round of the loop at edgep, where the
\* callback turns the heap before into the heap after: the value of nextp
\* the loop goes on with
forEachSinkEdgeStep(before, after, edgep) == m_nextp(before, edgep)

\* mutant: a sink is passed once, its further edges in the list are skipped
forEachSinkStep_SkipsSameSink(before, after, edgep) ==
    LET nextp == m_nextp(before, edgep) IN
    IF nextp[1] # NULL /\ nextp[1] = edgep[1] THEN m_nextp(before, nextp) ELSE nextp

\* DfgVertex::forEachSink (mutable), one round of the loop at edgep
forEachSinkStep(before, after, edgep) == m_nextp(before, edgep)

\* DfgVertex::sourceEdges().second, the arity of the vertex v
arity(h, v) == IF IsVariadic(h.type[v]) THEN h.srcCnt[v] ELSE Arity(h.type[v])

\* mutant: the callback is called for every operand slot
forEachSourceCalls_Always(h, v, i) == TRUE

\* DfgVertex::forEachSource, round i of the loop: whether f is called, with
\* *edgesp[i].m_sourcep
forEachSourceCalls(h, v, i) == h.sourcep[<<v, i>>] # NULL

\* mutant: the callback is called for the edges that have a source only
forEachSourceEdgeCalls_Linked(h, v, i) == h.sourcep[<<v, i>>] # NULL

\* DfgVertex::forEachSourceEdge and findSourceEdge, round i of the loop:
\* whether f, or p, is called with edgesp[i] and i
forEachSourceEdgeCalls(h, v, i) == TRUE

\* ---------------------------------------------------------------- history
\* The record kept of the last call: the operation, the graph, the vertex and the
\* edge it was applied to, the tag a removed vertex had, and the case of the call
NoCall == [op |-> "none", g |-> NULL, v |-> NULL, e |-> <<NULL, 0>>, tag |-> 0,
           note |-> "", ret |-> <<>>]

\* forEachVertex is not running
IdleIter == [pc |-> "idle", g |-> NULL, list |-> 0, vtxp |-> NULL, start |-> {},
             removed |-> {}, pastRemoved |-> FALSE, broken |-> FALSE,
             overload |-> "none"]

\* No forEach helper of DfgVertex is running
IdleWalk == [pc |-> "idle", kind |-> "none", v |-> NULL, edgep |-> NoEdge, i |-> 0,
             start |-> <<>>, seen |-> <<>>, passed |-> <<>>, gone |-> {},
             changed |-> {}, broken |-> FALSE]

\* The program is running and is in no callback
Running == fatal = NoFatal /\ iter.pc = "idle" /\ walk.pc = "idle"

\* The least guard object that does not exist
FreeGuard == CHOOSE k \in Guards \ guardLive : \A j \in Guards \ guardLive : k <= j

\* v is in a graph that has a session in use
InSession(v) == m_graphp[v] # NULL /\ m_userCurrent[m_graphp[v]] # 0

\* ---------------------------------------------------------------- actions
\* new Dfg<t>{g, ...}
Construct(v, g, t, garbage) ==
    /\ Running
    /\ m_type[v] = NoType
    /\ Commit(construct(Heap, v, g, t, garbage))
    /\ lastCall' = [NoCall EXCEPT !.op = "construct", !.g = g, !.v = v]
    /\ touched' = [touched EXCEPT ![v] = "added"]
    /\ shadow' = [shadow EXCEPT ![v] = DefaultValue]
    /\ UNCHANGED <<guardVars, VL_DEBUG, iterVars>>

\* g.addVertex(v), v in no graph
AddVertex(g, v) ==
    /\ Running
    /\ m_type[v] # NoType
    /\ m_graphp[v] = NULL
    /\ Commit(addVertex(Heap, g, v))
    /\ lastCall' = [NoCall EXCEPT !.op = "addVertex", !.g = g, !.v = v,
                       !.note = IF /\ lastCall.op = "removeVertex"
                                   /\ lastCall.v = v
                                   /\ lastCall.tag # 0
                                   /\ lastCall.tag = m_userCurrent[g]
                                THEN "sameTag"
                                ELSE IF lastCall.op = "removeVertex" /\ lastCall.v = v
                                THEN (IF lastCall.g = g THEN "back" ELSE "moved")
                                ELSE ""]
    /\ touched' = [touched EXCEPT ![v] = "added"]
    /\ shadow' = [shadow EXCEPT ![v] = DefaultValue]
    /\ UNCHANGED <<guardVars, VL_DEBUG, iterVars>>

\* g.removeVertex(v), v in g
RemoveVertex(v) ==
    /\ Running
    /\ m_graphp[v] # NULL
    /\ Commit(removeVertex(Heap, m_graphp[v], v))
    /\ lastCall' = [NoCall EXCEPT !.op = "removeVertex", !.g = m_graphp[v], !.v = v,
                                  !.tag = v_userCnt[v]]
    /\ touched' = [touched EXCEPT ![v] = "stale"]
    /\ shadow' = [shadow EXCEPT ![v] = DefaultValue]
    /\ UNCHANGED <<guardVars, VL_DEBUG, iterVars>>

\* Sum of the generation counters that count up from 0
RECURSIVE SessionsHad(_)
SessionsHad(gs) ==
    IF gs = {} THEN 0
    ELSE LET g == CHOOSE x \in gs : TRUE IN
         (IF m_userCnt[g] > 0 THEN m_userCnt[g] ELSE 0) + SessionsHad(gs \ {g})

\* auto guard = g.userDataInUse(); where guard is the object k, which does not
\* exist yet.  A graph is given a new session while fewer than MaxGen sessions
\* were had, or when its counter is about to overflow.
UserDataInUse(g, k) ==
    /\ Running
    /\ k \notin guardLive
    /\ \/ m_userCurrent[g] # 0
       \/ m_userCnt[g] >= 0 /\ SessionsHad(Graphs) < MaxGen
       \/ m_userCnt[g] \in {UserCntMax - 1, UserCntMax}
    /\ LET h == userDataInUse(Heap, g)
           ok == h.fatal = NoFatal
       IN /\ Commit(h)
          /\ guardLive' = IF ok THEN guardLive \cup {k} ELSE guardLive
          /\ guardGraphp' = IF ok THEN [guardGraphp EXCEPT ![k] = g]
                            ELSE guardGraphp
          /\ touched' = IF ok
                        THEN [v \in Vertices |->
                                IF m_graphp[v] = g /\ touched[v] = "touched"
                                THEN "stale" ELSE touched[v]]
                        ELSE touched
          /\ shadow' = IF ok
                       THEN [v \in Vertices |->
                               IF m_graphp[v] = g THEN DefaultValue ELSE shadow[v]]
                       ELSE shadow
          /\ lastCall' = [NoCall EXCEPT !.op = "userDataInUse", !.g = g,
                                        !.tag = m_userCnt[g],
                                        !.note = IF m_userCurrent[g] # 0 THEN "inUse"
                                                 ELSE "free"]
    /\ UNCHANGED <<VL_DEBUG, iterVars>>

\* UserDataInUse that2{std::move(that)};
GuardMoveConstruct(that) ==
    /\ Running
    /\ that \in guardLive
    /\ guardLive # Guards
    /\ IF guardGraphp[that] = NULL
       THEN /\ Commit(Fail(Heap, FatalMoveEmpty))
            /\ UNCHANGED guardVars
       ELSE /\ Commit(Heap)
            /\ guardLive' = guardLive \cup {FreeGuard}
            /\ guardGraphp' = [guardGraphp EXCEPT ![FreeGuard] = guardGraphp[that],
                                                  ![that] = NULL]
    /\ lastCall' = [NoCall EXCEPT !.op = "guardMoveConstruct", !.g = guardGraphp[that]]
    /\ UNCHANGED <<VL_DEBUG, userHist, iterVars>>

\* self = std::move(that);
GuardMoveAssign(self, that) ==
    /\ Running
    /\ self \in guardLive
    /\ that \in guardLive
    /\ IF guardGraphp[that] = NULL
       THEN /\ Commit(Fail(Heap, FatalMoveEmpty))
            /\ UNCHANGED guardVars
       ELSE /\ Commit(Heap)
            /\ guardLive' = guardLive
            /\ guardGraphp' = [[guardGraphp EXCEPT ![that] = NULL]
                                  EXCEPT ![self] = guardGraphp[that]]
    /\ lastCall' = [NoCall EXCEPT !.op = "guardMoveAssign", !.g = guardGraphp[that]]
    /\ UNCHANGED <<VL_DEBUG, userHist, iterVars>>

\* the guard k goes out of scope
GuardDestroy(k) ==
    /\ Running
    /\ k \in guardLive
    /\ Commit(guardDestructor(Heap, guardGraphp[k]))
    /\ guardLive' = guardLive \ {k}
    /\ guardGraphp' = [guardGraphp EXCEPT ![k] = NULL]
    /\ touched' = [v \in Vertices |->
                     IF /\ guardGraphp[k] # NULL
                        /\ m_graphp[v] = guardGraphp[k]
                        /\ touched[v] = "touched"
                     THEN "stale" ELSE touched[v]]
    /\ shadow' = [v \in Vertices |->
                    IF guardGraphp[k] # NULL /\ m_graphp[v] = guardGraphp[k]
                    THEN DefaultValue ELSE shadow[v]]
    /\ lastCall' = [NoCall EXCEPT !.op = "guardDestroy", !.g = guardGraphp[k]]
    /\ UNCHANGED <<VL_DEBUG, iterVars>>

\* History of a call that stored value in the slot of v, with the heap h as
\* its result
TouchedBy(h, v, value) ==
    LET live == InSession(v) /\ h.fatal = NoFatal IN
    /\ touched' = IF live THEN [touched EXCEPT ![v] = "touched"] ELSE touched
    /\ shadow' = IF live THEN [shadow EXCEPT ![v] = value] ELSE shadow

\* The case of a call of user<T>() on v:
\*   "again"      v was touched before in the session in use
\*   "afterAdd"   first touch since v was added to its graph
\*   "afterOld"   first touch in this session, and the slot holds a value that
\*                is not the default and is tagged by an earlier session
\*   "first"      any other first touch
UserCase(v) ==
    IF ~InSession(v) THEN "noSession"
    ELSE IF touched[v] = "touched" THEN "again"
    ELSE IF touched[v] = "added"
         THEN IF /\ lastCall.op = "addVertex" /\ lastCall.v = v
                 /\ lastCall.note = "sameTag"
                 /\ m_userDataStorage[v] # DefaultValue
              THEN "afterAddSameTag" ELSE "afterAdd"
    ELSE IF /\ v_userCnt[v] # 0
            /\ v_userCnt[v] # m_userCurrent[m_graphp[v]]
            /\ m_userDataStorage[v] # DefaultValue
         THEN "afterOld"
    ELSE "first"

\* x = v.user<T>();
UserRead(v) ==
    /\ Running
    /\ m_graphp[v] # NULL
    /\ LET h == user(Heap, v) IN
       /\ Commit(h)
       /\ lastCall' = [NoCall EXCEPT !.op = "user", !.g = m_graphp[v], !.v = v,
                                     !.note = UserCase(v)]
       /\ TouchedBy(h, v, IF touched[v] = "touched" THEN shadow[v] ELSE DefaultValue)
    /\ UNCHANGED <<guardVars, VL_DEBUG, iterVars>>

\* v.user<T>() = value;
UserWrite(v, value) ==
    /\ Running
    /\ m_graphp[v] # NULL
    /\ LET h1 == user(Heap, v)
           h == IF h1.fatal = NoFatal THEN [h1 EXCEPT !.storage[v] = value] ELSE h1
       IN /\ Commit(h)
          /\ lastCall' = [NoCall EXCEPT !.op = "userWrite", !.g = m_graphp[v], !.v = v]
          /\ TouchedBy(h, v, value)
    /\ UNCHANGED <<guardVars, VL_DEBUG, iterVars>>

\* x = v.getUser<T>();
GetUser(v) ==
    /\ Running
    /\ m_graphp[v] # NULL
    /\ LET h == getUser(Heap, v) IN
       /\ Commit(h)
       /\ lastCall' = [NoCall EXCEPT !.op = "getUser", !.g = m_graphp[v], !.v = v]
    /\ UNCHANGED <<guardVars, VL_DEBUG, userHist, iterVars>>

\* v.setUser(value);
SetUser(v, value) ==
    /\ Running
    /\ m_graphp[v] # NULL
    /\ LET h == setUser(Heap, v, value) IN
       /\ Commit(h)
       /\ lastCall' = [NoCall EXCEPT !.op = "setUser", !.g = m_graphp[v], !.v = v]
       /\ TouchedBy(h, v, value)
    /\ UNCHANGED <<guardVars, VL_DEBUG, iterVars>>

\* g.addGraph(other), other a graph that is not g
AddGraph(g, other) ==
    /\ Running
    /\ g # other
    /\ Commit(addGraph(Heap, g, other))
    /\ lastCall' = [NoCall EXCEPT !.op = "addGraph", !.g = g, !.v = other,
                       !.note = IF /\ m_size[g] > 0
                                   /\ \E v \in Vertices :
                                         m_graphp[v] = other /\ v_userCnt[v] # 0
                                THEN "movedTagged" ELSE ""]
    /\ touched' = [v \in Vertices |-> IF m_graphp[v] = other THEN "added" ELSE touched[v]]
    /\ shadow' = [v \in Vertices |-> IF m_graphp[v] = other THEN DefaultValue ELSE shadow[v]]
    /\ UNCHANGED <<guardVars, VL_DEBUG, iterVars>>

\* ------------------------------------------------------------ initial states
\* The graphs as constructed, empty, and no vertex allocated
InitHeap ==
    /\ m_varVertices = [g \in Graphs |-> <<>>]
    /\ m_constVertices = [g \in Graphs |-> <<>>]
    /\ m_opVertices = [g \in Graphs |-> <<>>]
    /\ m_size = [g \in Graphs |-> 0]
    /\ m_userCurrent = [g \in Graphs |-> 0]
    /\ m_graphp = [v \in Vertices |-> NULL]
    /\ m_type = [v \in Vertices |-> NoType]
    /\ v_userCnt = [v \in Vertices |-> 0]
    /\ m_userDataStorage = [v \in Vertices |-> DefaultValue]
    /\ m_sinksp = [v \in Vertices |-> <<>>]
    /\ m_sourcep = [e \in Edges |-> NULL]
    /\ m_sinkp = [e \in Edges |-> NULL]
    /\ m_srcsp = [v \in Vertices |-> 0]
    /\ m_srcCnt = [v \in Vertices |-> 0]
    /\ m_srcCap = [v \in Vertices |-> 0]
    /\ guardLive = {}
    /\ guardGraphp = [k \in Guards |-> NULL]
    /\ fatal = NoFatal
    /\ lastCall = NoCall
    /\ touched = [v \in Vertices |-> "stale"]
    /\ shadow = [v \in Vertices |-> DefaultValue]
    /\ iter = IdleIter
    /\ visited = <<>>
    /\ walk = IdleWalk

\* --------------------------------------------------- specification: guards
\* Sessions and their guards.  The generation counters of the graphs start as
\* those of new graphs, or graph 1 starts as a graph that has had 2^32 - 2
\* sessions.
InitCounters ==
    \E start \in {0, UserCntMax - 1} :
        m_userCnt = [g \in Graphs |-> IF g = 1 THEN start ELSE 0]

InitGuard ==
    /\ InitHeap
    /\ InitCounters
    /\ VL_DEBUG \in BOOLEAN

NextGuard ==
    \/ \E g \in Graphs : guardLive # Guards /\ UserDataInUse(g, FreeGuard)
    \/ \E k \in Guards : GuardMoveConstruct(k)
    \/ \E k, j \in Guards : GuardMoveAssign(k, j)
    \/ \E k \in Guards : GuardDestroy(k)

SpecGuard == InitGuard /\ [][NextGuard]_vars

\* ------------------------------------------------ specification: user data
\* Sessions and the user data of the vertices 1 .. NumUserVertices.  The guard
\* of a session of graph g is the object g: guards are not moved here.
UserVertices == 1 .. NumUserVertices

InitUser ==
    /\ InitHeap
    /\ InitCounters
    /\ VL_DEBUG \in BOOLEAN

NextUser ==
    \/ \E v \in UserVertices, g \in Graphs, garbage \in Values :
          Construct(v, g, "VarPacked", garbage)
    \/ \E g \in Graphs, v \in UserVertices : AddVertex(g, v)
    \/ \E v \in UserVertices : RemoveVertex(v)
    \/ \E g \in Graphs \cap Guards : UserDataInUse(g, g)
    \/ \E k \in Guards : GuardDestroy(k)
    \/ \E v \in UserVertices : UserRead(v)
    \/ \E v \in UserVertices, value \in Values : UserWrite(v, value)
    \/ \E v \in UserVertices : GetUser(v)
    \/ \E v \in UserVertices, value \in Values : SetUser(v, value)
    \/ \E g, other \in Graphs : AddGraph(g, other)

SpecUser == InitUser /\ [][NextUser]_vars

\* --------------------------------------------------- specification: edges
\* The type of the vertex v of the graph the edge operations are applied to
EdgeTypeOf(v) ==
    CASE v % 3 = 1 -> "VarPacked"
      [] v % 3 = 2 -> "Add"
      [] OTHER -> "Not"

\* The heap after the vertices vs were constructed in graph 1, in order, in the
\* heap h
RECURSIVE ConstructAll(_, _)
ConstructAll(h, vs) ==
    IF vs = <<>> THEN h
    ELSE ConstructAll(construct(h, Head(vs), 1, EdgeTypeOf(Head(vs)), DefaultValue),
                      Tail(vs))

\* The type of the vertex v of the graph that has a vertex of variable arity
VariadicTypeOf(v) ==
    IF v = 1 THEN "VarPacked" ELSE IF v % 2 = 0 THEN "Not" ELSE "Const"

\* The heap after the vertices vs were constructed in graph 1, in order, in the
\* heap h, each of the type VariadicTypeOf gives it
RECURSIVE ConstructAllOf(_, _)
ConstructAllOf(h, vs) ==
    IF vs = <<>> THEN h
    ELSE ConstructAllOf(construct(h, Head(vs), 1, VariadicTypeOf(Head(vs)), DefaultValue),
                        Tail(vs))

EmptyHeap ==
    [varV |-> [g \in Graphs |-> <<>>], constV |-> [g \in Graphs |-> <<>>],
     opV |-> [g \in Graphs |-> <<>>], size |-> [g \in Graphs |-> 0],
     userCurrent |-> [g \in Graphs |-> 0], userCnt |-> [g \in Graphs |-> 0],
     graphp |-> [v \in Vertices |-> NULL], type |-> [v \in Vertices |-> NoType],
     vUserCnt |-> [v \in Vertices |-> 0],
     storage |-> [v \in Vertices |-> DefaultValue],
     sinks |-> [v \in Vertices |-> <<>>], sourcep |-> [e \in Edges |-> NULL],
     sinkp |-> [e \in Edges |-> NULL], srcsp |-> [v \in Vertices |-> 0],
     srcCnt |-> [v \in Vertices |-> 0], srcCap |-> [v \in Vertices |-> 0],
     fatal |-> NoFatal]

\* The heap is h
HeapIs(h) ==
    /\ m_varVertices = h.varV
    /\ m_constVertices = h.constV
    /\ m_opVertices = h.opV
    /\ m_size = h.size
    /\ m_userCurrent = h.userCurrent
    /\ m_userCnt = h.userCnt
    /\ m_graphp = h.graphp
    /\ m_type = h.type
    /\ v_userCnt = h.vUserCnt
    /\ m_userDataStorage = h.storage
    /\ m_sinksp = h.sinks
    /\ m_sourcep = h.sourcep
    /\ m_sinkp = h.sinkp
    /\ m_srcsp = h.srcsp
    /\ m_srcCnt = h.srcCnt
    /\ m_srcCap = h.srcCap
    /\ fatal = h.fatal

\* A graph of all the vertices, constructed and with no edge linked yet; no
\* code modelled here depends on the build
InitEdge ==
    /\ HeapIs(ConstructAll(EmptyHeap, [v \in Vertices |-> v]))
    /\ guardLive = {}
    /\ guardGraphp = [k \in Guards |-> NULL]
    /\ VL_DEBUG = FALSE
    /\ lastCall = NoCall
    /\ touched = [v \in Vertices |-> "added"]
    /\ shadow = [v \in Vertices |-> DefaultValue]
    /\ iter = IdleIter
    /\ visited = <<>>
    /\ walk = IdleWalk

\* v.relinkSource<Index>(newSourcep)
RelinkSource(v, Index, newSourcep) ==
    /\ Running
    /\ Index < Arity(m_type[v])
    /\ m_type[newSourcep] # NoType
    /\ Commit(relinkSourceIdx(Heap, v, Index, newSourcep))
    /\ lastCall' = [NoCall EXCEPT !.op = "relinkSource", !.v = newSourcep,
                       !.e = <<v, Index>>, !.tag = m_sourcep[<<v, Index>>],
                       !.note = IF m_sourcep[<<v, Index>>] = NULL THEN "linked"
                                ELSE IF m_sourcep[<<v, Index>>] = newSourcep THEN "same"
                                ELSE "moved"]
    /\ UNCHANGED <<guardVars, VL_DEBUG, userHist, iterVars>>

\* e.unlinkSource(), e an edge that has a source
UnlinkSource(e) ==
    /\ Running
    /\ m_sinkp[e] # NULL
    /\ m_sourcep[e] # NULL
    /\ Commit(unlinkSource(Heap, e))
    /\ lastCall' = [NoCall EXCEPT !.op = "unlinkSource", !.e = e, !.tag = m_sourcep[e]]
    /\ UNCHANGED <<guardVars, VL_DEBUG, userHist, iterVars>>

\* v.replaceWith(newSourcep)
ReplaceWith(v, newSourcep) ==
    /\ Running
    /\ m_type[v] # NoType
    /\ m_type[newSourcep] # NoType
    /\ Commit(replaceWith(Heap, v, newSourcep))
    /\ lastCall' = [NoCall EXCEPT !.op = "replaceWith", !.v = v, !.tag = newSourcep,
                       !.note = IF m_sinksp[v] = <<>> THEN "noSinks"
                                ELSE IF m_sinksp[newSourcep] = <<>> THEN "sinks"
                                ELSE "bothSinks"]
    /\ UNCHANGED <<guardVars, VL_DEBUG, userHist, iterVars>>

NextEdge ==
    \/ \E v \in Vertices, Index \in SlotIdx, n \in Vertices : RelinkSource(v, Index, n)
    \/ \E e \in Edges : UnlinkSource(e)
    \/ \E v \in Vertices, n \in Vertices : ReplaceWith(v, n)

SpecEdge == InitEdge /\ [][NextEdge]_vars

\* ----------------------------------------------- specification: iteration
\* The vertices of g
VerticesOf(g) == {v \in Vertices : m_graphp[v] = g}

\* g.forEachVertex(f) is called
ForEachVertexBegin(g) ==
    /\ Running
    /\ m_size[g] > 0
    /\ LET at == forEachVertexBegin(Heap, g) IN
       iter' = [IdleIter EXCEPT !.pc = IF at.list = 4 THEN "done" ELSE "loop",
                                !.g = g, !.list = at.list, !.vtxp = at.vtxp,
                                !.start = VerticesOf(g), !.overload = "mutable"]
    /\ visited' = <<>>
    /\ walk' = walk
    /\ lastCall' = [NoCall EXCEPT !.op = "forEachVertex", !.g = g]
    /\ UNCHANGED <<heapVars, guardVars, VL_DEBUG, userHist>>

\* g.forEachVertex(f) is called on a const graph
ForEachVertexConstBegin(g) ==
    /\ Running
    /\ m_size[g] > 0
    /\ LET at == forEachVertexBegin(Heap, g) IN
       iter' = [IdleIter EXCEPT !.pc = IF at.list = 4 THEN "done" ELSE "loop",
                                !.g = g, !.list = at.list, !.vtxp = at.vtxp,
                                !.start = VerticesOf(g), !.overload = "const"]
    /\ visited' = <<>>
    /\ walk' = walk
    /\ lastCall' = [NoCall EXCEPT !.op = "forEachVertex const", !.g = g]
    /\ UNCHANGED <<heapVars, guardVars, VL_DEBUG, userHist>>

\* One round of the loop of forEachVertex const: f(*vtxp) is called
ForEachVertexConstCall ==
    /\ fatal = NoFatal
    /\ iter.pc = "loop"
    /\ iter.overload = "const"
    /\ LET at == forEachVertexConstStep(Heap, iter.g, iter.list, iter.vtxp) IN
       iter' = [iter EXCEPT !.pc = IF at.list = 4 THEN "done" ELSE "loop",
                            !.list = at.list,
                            !.vtxp = at.vtxp]
    /\ visited' = Append(visited, iter.vtxp)
    /\ walk' = walk
    /\ lastCall' = [NoCall EXCEPT !.op = "callback", !.g = iter.g, !.v = iter.vtxp,
                                  !.note = "keep"]
    /\ UNCHANGED <<heapVars, guardVars, VL_DEBUG, userHist>>

\* What the callback f does with the vertex vtxp it is given:
\*   "keep"         nothing
\*   "remove"       removes vtxp from the graph
\*   "delete"       vtxp.unlinkDelete(g)
\*   "removeOther"  removes the vertex w of the graph, which is not vtxp: the
\*                  caller breaks the contract of forEachVertex
Callback(h, g, vtxp, what, w) ==
    CASE what = "remove" -> removeVertex(h, g, vtxp)
      [] what = "delete" -> unlinkDelete(h, g, vtxp)
      [] what = "removeOther" -> removeVertex(h, g, w)
      [] OTHER -> h

\* One round of the loop of forEachVertex: f(*vtxp) is called
ForEachVertexCall(what, w) ==
    /\ fatal = NoFatal
    /\ iter.pc = "loop"
    /\ iter.overload = "mutable"
    /\ what = "delete" => m_sinksp[iter.vtxp] = <<>>
    /\ IF what = "removeOther"
       THEN w # iter.vtxp /\ m_graphp[w] = iter.g
       ELSE w = iter.vtxp
    /\ LET after == Callback(Heap, iter.g, iter.vtxp, what, w)
           at == forEachVertexStep(Heap, after, iter.g, iter.list, iter.vtxp)
       IN /\ Commit(after)
          /\ iter' = [iter EXCEPT
                        !.pc = IF at.list = 4 THEN "done" ELSE "loop",
                        !.list = at.list,
                        !.vtxp = at.vtxp,
                        !.removed = IF what \in {"remove", "delete"}
                                    THEN @ \cup {iter.vtxp} ELSE @,
                        !.pastRemoved = @ \/ (/\ what \in {"remove", "delete"}
                                              /\ at.list = iter.list),
                        !.broken = @ \/ what = "removeOther"]
    /\ visited' = Append(visited, iter.vtxp)
    /\ walk' = walk
    /\ lastCall' = [NoCall EXCEPT !.op = "callback", !.g = iter.g, !.v = iter.vtxp,
                                  !.note = what]
    /\ touched' = [touched EXCEPT ![w] = IF what = "keep" THEN @ ELSE "stale"]
    /\ UNCHANGED <<guardVars, VL_DEBUG, shadow>>

\* forEachVertex returns
ForEachVertexEnd ==
    /\ fatal = NoFatal
    /\ iter.pc = "done"
    /\ iter' = IdleIter
    /\ visited' = <<>>
    /\ walk' = walk
    /\ lastCall' = [NoCall EXCEPT !.op = "forEachVertexEnd", !.g = iter.g]
    /\ UNCHANGED <<heapVars, guardVars, VL_DEBUG, userHist>>

\* The heap after the vertices vs were constructed in graph g, in order, with
\* the types ty, in the heap h
RECURSIVE ConstructTyped(_, _, _, _)
ConstructTyped(h, g, vs, ty) ==
    IF vs = <<>> THEN h
    ELSE ConstructTyped(construct(h, Head(vs), g, ty[Head(vs)], DefaultValue), g,
                        Tail(vs), ty)

\* Graph 1 holds all the vertices, of any types, constructed in order and with
\* no edge linked; no code modelled here depends on the build
InitIter ==
    /\ \E ty \in [Vertices -> {"VarPacked", "Const", "Not"}] :
          HeapIs(ConstructTyped(EmptyHeap, 1, [v \in Vertices |-> v], ty))
    /\ guardLive = {}
    /\ guardGraphp = [k \in Guards |-> NULL]
    /\ VL_DEBUG = FALSE
    /\ lastCall = NoCall
    /\ touched = [v \in Vertices |-> "added"]
    /\ shadow = [v \in Vertices |-> DefaultValue]
    /\ iter = IdleIter
    /\ visited = <<>>
    /\ walk = IdleWalk

NextIter ==
    \/ \E v \in Vertices : AddVertex(1, v)
    \/ \E v \in Vertices : RemoveVertex(v)
    \/ ForEachVertexBegin(1)
    \/ ForEachVertexConstBegin(1)
    \/ ForEachVertexConstCall
    \/ \E what \in {"keep", "remove", "delete", "removeOther"}, w \in Vertices :
          ForEachVertexCall(what, w)
    \/ ForEachVertexEnd

SpecIter == InitIter /\ [][NextIter]_vars


\* ------------------------------------------- specification: sink iteration
SinkKinds == {"forEachSinkEdge", "forEachSink"}

\* v.forEachSinkEdge(f) or v.forEachSink(f) is called, on a vertex with sinks
SinkWalkBegin(v, kind) ==
    /\ Running
    /\ m_type[v] # NoType
    /\ m_sinksp[v] # <<>>
    /\ walk' = [IdleWalk EXCEPT !.pc = "loop", !.kind = kind, !.v = v,
                                !.edgep = forEachSinkBegin(Heap, v),
                                !.start = m_sinksp[v]]
    /\ lastCall' = [NoCall EXCEPT !.op = kind, !.v = v]
    /\ UNCHANGED <<heapVars, guardVars, VL_DEBUG, userHist, iter, visited>>

\* Every source edge of the vertex s that has v as its source is unlinked
RECURSIVE UnlinkFrom(_, _, _, _)
UnlinkFrom(h, s, v, i) ==
    IF i >= Arity(h.type[s]) THEN h
    ELSE UnlinkFrom(IF h.sourcep[<<s, i>>] = v THEN unlinkSource(h, <<s, i>>) ELSE h,
                    s, v, i + 1)

\* What the callback f of forEachSinkEdge does with the edge e it is given:
\*   "keep"    nothing
\*   "unlink"  e.unlinkSource()
\*   "relink"  e.relinkSource(n)
\*   "other"   unlinks the sink edge o of the vertex, which is not e: the
\*             caller breaks the contract of forEachSinkEdge
SinkEdgeCallback(h, e, what, n, o) ==
    CASE what = "unlink" -> unlinkSource(h, e)
      [] what = "relink" -> relinkSource(h, e, n)
      [] what = "other" -> unlinkSource(h, o)
      [] OTHER -> h

\* What the callback f of forEachSink does with the sink s of v it is given:
\*   "keep"    nothing
\*   "unlink"  unlinks s from v: every source edge of s that v is the source of
\*   "delete"  s.unlinkDelete(g)
\*   "other"   unlinks the sink edge o of v, which is an edge of another
\*             sink: the caller breaks the contract of forEachSink
SinkCallback(h, v, s, what, o) ==
    CASE what = "unlink" -> UnlinkFrom(h, s, v, 0)
      [] what = "delete" -> unlinkDelete(h, h.graphp[s], s)
      [] what = "other" -> unlinkSource(h, o)
      [] OTHER -> h

\* One round of the loop of forEachSinkEdge or forEachSink: f is called with
\* *edgep or with *edgep->m_sinkp.  A callback given a deleted vertex is taken
\* to do nothing.
SinkWalkCall(what, n, o) ==
    /\ fatal = NoFatal
    /\ walk.pc = "loop"
    /\ walk.kind \in SinkKinds
    /\ Len(walk.seen) < MaxWalk
    /\ LET e == walk.edgep
           s == e[1]
           edgeWise == walk.kind = "forEachSinkEdge"
           others == {x \in SeqSet(m_sinksp[walk.v]) :
                         IF edgeWise THEN x # e ELSE x[1] # s}
           after == IF edgeWise THEN SinkEdgeCallback(Heap, e, what, n, o)
                    ELSE SinkCallback(Heap, walk.v, s, what, o)
       IN /\ m_sinkp[e] = NULL => what = "keep"
          /\ what \in (IF edgeWise THEN {"keep", "unlink", "relink", "other"}
                       ELSE {"keep", "unlink", "delete", "other"})
          /\ what = "unlink" /\ edgeWise => m_sourcep[e] # NULL
          /\ what = "delete" => m_sinksp[s] = <<>> /\ m_graphp[s] # NULL
          /\ IF what = "relink" THEN m_type[n] # NoType ELSE n = 1
          /\ IF what = "other" THEN o \in others ELSE o = NoEdge
          /\ Commit(after)
          /\ LET nextp == IF edgeWise THEN forEachSinkEdgeStep(Heap, after, e)
                           ELSE forEachSinkStep(Heap, after, e)
             IN walk' = [walk EXCEPT
                           !.pc = IF nextp = NoEdge THEN "done"
                                  ELSE IF nextp = UndefEdge THEN "undefined"
                                  ELSE "loop",
                           !.edgep = nextp,
                           !.seen = Append(@, e),
                           !.passed = IF edgeWise THEN @ ELSE Append(@, s),
                           !.gone = IF ~edgeWise /\ what \in {"unlink", "delete"}
                                    THEN @ \cup {s} ELSE @,
                           !.changed = IF edgeWise /\ what \in {"unlink", "relink"}
                                       THEN @ \cup {e} ELSE @,
                           !.broken = @ \/ what = "other"]
          /\ lastCall' = [NoCall EXCEPT !.op = "sinkCallback", !.v = s, !.e = e,
                                        !.note = what]
    /\ UNCHANGED <<guardVars, VL_DEBUG, userHist, iter, visited>>

\* forEachSinkEdge or forEachSink returns
SinkWalkEnd ==
    /\ fatal = NoFatal
    /\ walk.pc = "done"
    /\ walk.kind \in SinkKinds
    /\ walk' = IdleWalk
    /\ lastCall' = [NoCall EXCEPT !.op = "walkEnd", !.v = walk.v]
    /\ UNCHANGED <<heapVars, guardVars, VL_DEBUG, userHist, iter, visited>>

\* The vertices are those of the specification of the edges
InitSink == InitEdge

NextSink ==
    \/ \E v \in Vertices, Index \in SlotIdx, n \in Vertices : RelinkSource(v, Index, n)
    \/ \E v \in Vertices, kind \in SinkKinds : SinkWalkBegin(v, kind)
    \/ \E what \in {"keep", "unlink", "relink", "delete", "other"},
          n \in Vertices, o \in Edges \cup {NoEdge} : SinkWalkCall(what, n, o)
    \/ SinkWalkEnd

SpecSink == InitSink /\ [][NextSink]_vars

\* ---------------------------------------- specification: operand iteration
SourceKinds == {"forEachSource", "forEachSourceEdge", "findSourceEdge"}

\* v.forEachSource(f), v.forEachSourceEdge(f) or v.findSourceEdge(p) is called
SourceWalkBegin(v, kind) ==
    /\ Running
    /\ m_type[v] # NoType
    /\ walk' = [IdleWalk EXCEPT !.pc = IF arity(Heap, v) = 0 THEN "done" ELSE "loop",
                                !.kind = kind, !.v = v]
    /\ lastCall' = [NoCall EXCEPT !.op = kind, !.v = v]
    /\ UNCHANGED <<heapVars, guardVars, VL_DEBUG, userHist, iter, visited>>

\* Round walk.i of the loop over the operand slots; the callback changes
\* nothing, and the predicate p of findSourceEdge answers found.  The result
\* of findSourceEdge is kept in walk.edgep.
SourceWalkRound(found) ==
    /\ fatal = NoFatal
    /\ walk.pc = "loop"
    /\ walk.kind \in SourceKinds
    /\ walk.kind # "findSourceEdge" => ~found
    /\ LET v == walk.v
           i == walk.i
           e == <<v, i>>
           calls == IF walk.kind = "forEachSource" THEN forEachSourceCalls(Heap, v, i)
                    ELSE forEachSourceEdgeCalls(Heap, v, i)
           returns == calls /\ found
       IN /\ found => calls
          /\ walk' = [walk EXCEPT
                        !.pc = IF returns \/ i + 1 >= arity(Heap, v) THEN "done"
                               ELSE "loop",
                        !.i = i + 1,
                        !.edgep = IF returns THEN e ELSE NoEdge,
                        !.seen = IF calls THEN Append(@, e) ELSE @,
                        !.passed = IF calls /\ walk.kind = "forEachSource"
                                   THEN Append(@, m_sourcep[e]) ELSE @]
          /\ lastCall' = [NoCall EXCEPT !.op = "sourceCallback", !.v = v, !.e = e,
                                        !.note = IF calls THEN "called" ELSE "skipped"]
    /\ UNCHANGED <<heapVars, guardVars, VL_DEBUG, userHist, iter, visited>>

\* The helper returns
SourceWalkEnd ==
    /\ fatal = NoFatal
    /\ walk.pc = "done"
    /\ walk.kind \in SourceKinds
    /\ walk' = IdleWalk
    /\ lastCall' = [NoCall EXCEPT !.op = "walkEnd", !.v = walk.v]
    /\ UNCHANGED <<heapVars, guardVars, VL_DEBUG, userHist, iter, visited>>

\* The vertices are those of the specification of the edges
InitSource == InitEdge

NextSource ==
    \/ \E v \in Vertices, Index \in SlotIdx, n \in Vertices : RelinkSource(v, Index, n)
    \/ \E e \in Edges : UnlinkSource(e)
    \/ \E v \in Vertices, kind \in SourceKinds : SourceWalkBegin(v, kind)
    \/ \E found \in BOOLEAN : SourceWalkRound(found)
    \/ SourceWalkEnd

SpecSource == InitSource /\ [][NextSource]_vars

\* ------------------------------------------------- specification: graphs
\* The type of the vertex allocated in slot v
GraphTypeOf(v) ==
    CASE v % 4 = 1 -> "VarPacked"
      [] v % 4 = 2 -> "Const"
      [] v % 4 = 3 -> "Add"
      [] OTHER -> "Not"

\* v.unlinkDelete(g), v a vertex of g that has no sinks
UnlinkDelete(v) ==
    /\ Running
    /\ m_graphp[v] # NULL
    /\ m_sinksp[v] = <<>>
    /\ Commit(unlinkDelete(Heap, m_graphp[v], v))
    /\ lastCall' = [NoCall EXCEPT !.op = "unlinkDelete", !.g = m_graphp[v], !.v = v,
                       !.tag = IF lastCall.op = "addGraph" /\ lastCall.g = m_graphp[v]
                               THEN 1 ELSE 0,
                       !.note = IF \E e \in Edges : e[1] = v /\ m_sourcep[e] # NULL
                                THEN "hadSources" ELSE ""]
    /\ touched' = [touched EXCEPT ![v] = "stale"]
    /\ shadow' = [shadow EXCEPT ![v] = DefaultValue]
    /\ UNCHANGED <<guardVars, VL_DEBUG, iterVars>>

\* Empty graphs of a release build; only the last graph takes a session,
\* which is never released
InitGraph ==
    /\ InitHeap
    /\ m_userCnt = [g \in Graphs |-> 0]
    /\ VL_DEBUG = FALSE

NextGraph ==
    \/ \E v \in Vertices, g \in Graphs : Construct(v, g, GraphTypeOf(v), DefaultValue)
    \/ \E g \in Graphs, v \in Vertices : AddVertex(g, v)
    \/ \E v \in Vertices : RemoveVertex(v)
    \/ \E v \in Vertices : UnlinkDelete(v)
    \/ \E g, other \in Graphs : AddGraph(g, other)
    \/ \E v \in Vertices, Index \in SlotIdx, n \in Vertices : RelinkSource(v, Index, n)
    \/ UserDataInUse(NumGraphs, 1)
    \/ \E v \in Vertices : m_graphp[v] # NULL /\ InSession(v) /\ SetUser(v, MaxVal)

SpecGraph == InitGraph /\ [][NextGraph]_vars

\* ------------------------------------ specification: variable arity vertices
\* The last vertex is the one of variable arity
VariadicVertex == NumVertices

\* The initial capacities the constructor is called with
InitialCapacities == {0, 1, 2}

\* v.addSource(), while the model has room for the buffer
AddSource(v) ==
    /\ Running
    /\ IsVariadic(m_type[v])
    /\ m_srcCnt[v] = m_srcCap[v] => 2 * m_srcCap[v] <= MaxCap
    /\ m_srcCnt[v] < MaxCap
    /\ Commit(addSource(Heap, v))
    /\ lastCall' = [NoCall EXCEPT !.op = "addSource", !.v = v,
                       !.e = addSourceResult(addSource(Heap, v), v),
                       !.tag = m_srcCnt[v],
                       !.note = IF m_srcCnt[v] # m_srcCap[v] THEN ""
                                ELSE IF /\ \E i \in 0 .. m_srcCnt[v] - 1 :
                                              m_sourcep[sourceEdge(Heap, v, i)] = NULL
                                        /\ \E i \in 0 .. m_srcCnt[v] - 1 :
                                              m_sourcep[sourceEdge(Heap, v, i)] # NULL
                                THEN "grewMixed" ELSE "grew"]
    /\ UNCHANGED <<guardVars, VL_DEBUG, userHist, iterVars>>

\* v.sourceEdge(idx)->relinkSource(newSourcep), idx < v.arity()
RelinkVariadic(v, idx, newSourcep) ==
    /\ Running
    /\ IsVariadic(m_type[v])
    /\ idx < m_srcCnt[v]
    /\ m_type[newSourcep] # NoType
    /\ Commit(IF idx < m_srcCap[v]
              THEN relinkSource(Heap, sourceEdge(Heap, v, idx), newSourcep)
              ELSE Fail(Heap, OutOfBuffer))
    /\ lastCall' = [NoCall EXCEPT !.op = "relinkSource", !.v = newSourcep,
                       !.e = sourceEdge(Heap, v, idx)]
    /\ UNCHANGED <<guardVars, VL_DEBUG, userHist, iterVars>>

\* v.resetSources()
ResetSources(v) ==
    /\ Running
    /\ IsVariadic(m_type[v])
    /\ \E h \in resetSources(Heap, v) :
          /\ Commit(h)
          /\ lastCall' = [NoCall EXCEPT !.op = "resetSources", !.v = v,
                             !.tag = m_srcCnt[v]]
    /\ UNCHANGED <<guardVars, VL_DEBUG, userHist, iterVars>>

\* A graph of all the vertices, the last of them of variable arity, with no
\* edge linked yet
InitVariadic ==
    /\ \E c \in InitialCapacities :
          HeapIs(constructVariadic(
                     ConstructAllOf(EmptyHeap, [v \in 1 .. NumVertices - 1 |-> v]),
                     VariadicVertex, 1, c))
    /\ guardLive = {}
    /\ guardGraphp = [k \in Guards |-> NULL]
    /\ VL_DEBUG = FALSE
    /\ lastCall = NoCall
    /\ touched = [v \in Vertices |-> "added"]
    /\ shadow = [v \in Vertices |-> DefaultValue]
    /\ iter = IdleIter
    /\ visited = <<>>
    /\ walk = IdleWalk

NextVariadic ==
    \/ AddSource(VariadicVertex)
    \/ ResetSources(VariadicVertex)
    \/ \E idx \in 0 .. MaxCap - 1, n \in Vertices : RelinkVariadic(VariadicVertex, idx, n)
    \/ \E v \in Vertices, Index \in SlotIdx, n \in Vertices : RelinkSource(v, Index, n)
    \/ \E e \in Edges : UnlinkSource(e)

SpecVariadic == InitVariadic /\ [][NextVariadic]_vars

\* --------------------------------------------------- specification: inlined
\* The types vertex v may have in the graph inlined() is called in: the first
\* vertex is a constant or a variable, the others are array selects and
\* additions in turn
InlineTypesOf(v) ==
    IF v = 1 THEN {"Const", "VarPacked"} ELSE IF v % 2 = 0 THEN {"ArraySel"} ELSE {"Add"}

\* x = v.inlined();
Inlined(v) ==
    /\ Running
    /\ m_type[v] # NoType
    /\ \E r \in inlined(Heap, v) :
          /\ Commit(IF r = "crash" THEN Fail(Heap, Crashed) ELSE Heap)
          /\ lastCall' = [NoCall EXCEPT !.op = "inlined", !.v = v, !.note = r]
    /\ UNCHANGED <<guardVars, VL_DEBUG, userHist, iterVars>>

\* A graph of all the vertices, constructed and with no edge linked yet
InitInline ==
    /\ \E t \in [Vertices -> Types] :
          /\ \A v \in Vertices : t[v] \in InlineTypesOf(v)
          /\ HeapIs(ConstructTyped(EmptyHeap, 1, [v \in Vertices |-> v], t))
    /\ guardLive = {}
    /\ guardGraphp = [k \in Guards |-> NULL]
    /\ VL_DEBUG = FALSE
    /\ lastCall = NoCall
    /\ touched = [v \in Vertices |-> "added"]
    /\ shadow = [v \in Vertices |-> DefaultValue]
    /\ iter = IdleIter
    /\ visited = <<>>
    /\ walk = IdleWalk

NextInline ==
    \/ \E v \in Vertices, Index \in SlotIdx, n \in Vertices : RelinkSource(v, Index, n)
    \/ \E e \in Edges : UnlinkSource(e)
    \/ \E v \in Vertices : Inlined(v)

SpecInline == InitInline /\ [][NextInline]_vars

\* ------------------------------------------ specification: graph algorithms
\* The edges that are linked: they have a sink, their owner, and a source
LinkedEdges(h) == {e \in Edges : h.sinkp[e] # NULL /\ h.sourcep[e] # NULL}

\* The sources of vertex a
SourcesOf(h, a) == {h.sourcep[e] : e \in {x \in LinkedEdges(h) : x[1] = a}}

\* The sinks of vertex a
SinksOf(h, a) == {e[1] : e \in {x \in LinkedEdges(h) : h.sourcep[x] = a}}

\* mutant: only the sources of a vertex are its neighbours
Neighbours_SourcesOnly(h, a) == SourcesOf(h, a)

\* The vertices one edge away from a, whatever the direction of the edge
Neighbours(h, a) == SourcesOf(h, a) \cup SinksOf(h, a)

\* The vertices of V that are reached from the vertices S over edges in either
\* direction
RECURSIVE Component(_, _, _)
Component(h, V, S) ==
    LET N == S \cup {b \in V : \E a \in S : b \in Neighbours(h, a)} IN
    IF N = S THEN S ELSE Component(h, V, N)

\* The components of the variables vs, in order: every variable not yet in a
\* component begins one, of the vertices of V not yet in one
RECURSIVE Components(_, _, _, _)
Components(h, V, vs, done) ==
    IF vs = <<>> THEN <<>>
    ELSE IF Head(vs) \in done THEN Components(h, V, Tail(vs), done)
    ELSE LET C == Component(h, V \ done, {Head(vs)}) IN
         <<C>> \o Components(h, V, Tail(vs), done \cup C)

\* The entries of the list s that are in the set C, in the order of s
SubList(s, C) ==
    LET InC(x) == x \in C IN SelectSeq(s, InC)

\* A graph returned by an algorithm: the vertices C of graph g, in lists of the
\* order they had in g
NewGraphOf(h, g, C) ==
    [varV |-> SubList(h.varV[g], C), constV |-> SubList(h.constV[g], C),
     opV |-> SubList(h.opV[g], C), size |-> Cardinality(C)]

\* The vertices in the lists of a returned graph
ContainedIn(r) == SeqSet(r.varV) \cup SeqSet(r.constV) \cup SeqSet(r.opV)

\* The heap after the vertices D were deleted, with the edges they own
DeleteAll(h, D) ==
    [h EXCEPT !.type = [v \in Vertices |-> IF v \in D THEN NoType ELSE @[v]],
              !.graphp = [v \in Vertices |-> IF v \in D THEN NULL ELSE @[v]],
              !.vUserCnt = [v \in Vertices |-> IF v \in D THEN 0 ELSE @[v]],
              !.sourcep = [e \in Edges |-> IF e[1] \in D THEN NULL ELSE @[e]],
              !.sinkp = [e \in Edges |-> IF e[1] \in D THEN NULL ELSE @[e]],
              !.sinks = [v \in Vertices |->
                           IF v \in D THEN <<>>
                           ELSE LET Stays(e) == e[1] \notin D IN SelectSeq(@[v], Stays)]]

\* The heap after the vertices of the sets comps[k] were moved from graph g to
\* the k-th new graph, which is graph NumGraphs + k
MoveAll(h, g, comps) ==
    LET moved == UNION {comps[k] : k \in 1 .. Len(comps)} IN
    [h EXCEPT !.varV[g] = SubList(@, Contained(h, g) \ moved),
              !.constV[g] = SubList(@, Contained(h, g) \ moved),
              !.opV[g] = SubList(@, Contained(h, g) \ moved),
              !.size[g] = @ - Cardinality(moved),
              !.vUserCnt = [v \in Vertices |-> IF v \in moved THEN 0 ELSE @[v]],
              !.graphp = [v \in Vertices |->
                            IF v \in moved
                            THEN NumGraphs + (CHOOSE k \in 1 .. Len(comps) : v \in comps[k])
                            ELSE @[v]]]

\* DfgGraph::splitIntoComponents: the heap after the call, and the graphs
\* returned
splitIntoComponents(h, g) ==
    LET V == Contained(h, g)
        comps == Components(h, V, h.varV[g], {})
        moved == UNION {comps[k] : k \in 1 .. Len(comps)}
        h1 == MoveAll(h, g, comps)
        h2 == [DeleteAll(h1, V \ moved) EXCEPT !.varV[g] = <<>>, !.constV[g] = <<>>,
                                               !.opV[g] = <<>>, !.size[g] = 0]
    IN [heap |-> h2, ret |-> [k \in 1 .. Len(comps) |-> NewGraphOf(h, g, comps[k])]]

\* The vertices of V reached from the vertices S along edges, from source to
\* sink
RECURSIVE Downstream(_, _, _)
Downstream(h, V, S) ==
    LET N == S \cup {b \in V : \E a \in S : b \in SinksOf(h, a)} IN
    IF N = S THEN S ELSE Downstream(h, V, N)

\* mutant: a vertex that is its own source is not taken as a cycle
InCycle_NoSelfLoop(h, V, v) == v \in Downstream(h, V, (SinksOf(h, v) \cap V) \ {v})

\* The vertex v of V is in a strongly connected component that has a cycle
InCycle(h, V, v) == v \in Downstream(h, V, SinksOf(h, v) \cap V)

\* The vertices S with the vertices of V that feed them or are fed from them,
\* up to the variables
RECURSIVE Grown(_, _, _)
Grown(h, V, S) ==
    LET N == S \cup {b \in V : /\ ~IsVertexVar(h.type[b])
                                /\ \E a \in S : b \in Neighbours(h, a)}
    IN IF N = S THEN S ELSE Grown(h, V, N)

\* The vertices of graph g in the order of its lists
OrderOf(h, g) == h.varV[g] \o h.constV[g] \o h.opV[g]

\* DfgGraph::extractCyclicComponents: the heap after the call, and the graphs
\* returned
extractCyclicComponents(h, g) ==
    LET V == Contained(h, g)
        cyclic == Grown(h, V, {v \in V : InCycle(h, V, v)})
        comps == Components(h, cyclic, SubList(OrderOf(h, g), cyclic), {})
    IN [heap |-> MoveAll(h, g, comps),
        ret |-> [k \in 1 .. Len(comps) |-> NewGraphOf(h, g, comps[k])]]

\* The types vertex v may have in the graph the algorithms are applied to
AlgoTypesOf(v) ==
    IF v = 1 THEN {"VarPacked"}
    ELSE IF v % 2 = 0 THEN {"Not", "Add"}
    ELSE {"VarPacked", "Not"}

\* auto graphs = g.splitIntoComponents(label);
SplitIntoComponents(g) ==
    /\ Running
    /\ LET r == splitIntoComponents(Heap, g) IN
       /\ Commit(r.heap)
       /\ lastCall' = [NoCall EXCEPT !.op = "splitIntoComponents", !.g = g, !.ret = r.ret,
                          !.note = IF r.heap.type # m_type THEN "dropped" ELSE ""]
    /\ UNCHANGED <<guardVars, VL_DEBUG, userHist, iterVars>>

\* auto graphs = g.extractCyclicComponents(label);
ExtractCyclicComponents(g) ==
    /\ Running
    /\ LET r == extractCyclicComponents(Heap, g) IN
       /\ Commit(r.heap)
       /\ lastCall' = [NoCall EXCEPT !.op = "extractCyclicComponents", !.g = g,
                          !.ret = r.ret]
    /\ UNCHANGED <<guardVars, VL_DEBUG, userHist, iterVars>>

\* Graph 1 holds all the vertices, constructed in order and with no edge
\* linked
InitAlgo ==
    /\ \E t \in [Vertices -> Types] :
          /\ \A v \in Vertices : t[v] \in AlgoTypesOf(v)
          /\ HeapIs(ConstructTyped(EmptyHeap, 1, [v \in Vertices |-> v], t))
    /\ guardLive = {}
    /\ guardGraphp = [k \in Guards |-> NULL]
    /\ VL_DEBUG = FALSE
    /\ lastCall = NoCall
    /\ touched = [v \in Vertices |-> "added"]
    /\ shadow = [v \in Vertices |-> DefaultValue]
    /\ iter = IdleIter
    /\ visited = <<>>
    /\ walk = IdleWalk

\* Edges are linked while every vertex is in graph 1; then an algorithm is
\* applied to the graph
Building == \A v \in Vertices : m_graphp[v] = 1

NextAlgo ==
    \/ \E v \in Vertices, Index \in SlotIdx, n \in Vertices :
          Building /\ RelinkSource(v, Index, n)
    \/ Building /\ SplitIntoComponents(1)
    \/ Building /\ ExtractCyclicComponents(1)

SpecAlgo == InitAlgo /\ [][NextAlgo]_vars

\* ------------------------------------------ specification: equals and hash
\* The constant a constant vertex holds, and the variable a variable vertex
\* refers to: vertex v holds the constant v % 2, and refers to variable v
Payload(h, v) ==
    IF IsConst(h.type[v]) THEN v % 2
    ELSE IF IsVertexVar(h.type[v]) THEN v
    ELSE 0

\* VDfgType as a number
TypeTag(t) ==
    CASE t = "VarPacked" -> 1
      [] t = "Const" -> 2
      [] t = "Not" -> 3
      [] t = "Add" -> 4
      [] OTHER -> 5

\* V3Hash: a value of HashBits bits; the combination of two hashes is never the
\* value of a V3Hash not computed yet, which is DefaultValue
HashMod == 2 ^ HashBits
Combine(x, y) == 1 + ((x * 31 + y) % (HashMod - 1))

\* mutant: the constant and the variable are not compared
selfEquals_KindOnly(h, a, b) == h.type[a] = h.type[b]

\* DfgVertex::selfEquals: the local payload of the two vertices is the same
selfEquals(h, a, b) == h.type[a] = h.type[b] /\ Payload(h, a) = Payload(h, b)

\* DfgVertex::selfHash
selfHash(h, v) == Combine(TypeTag(h.type[v]), Payload(h, v))

\* DfgVertex::EqualsCache with no entry: the pairs found equal, and unequal
EmptyCache == [eq |-> {}, ne |-> {}]

\* DfgVertex::equals(that, cache): what is returned, and the cache afterwards.
\* busy holds the pairs whose comparison has begun and has not returned; a
\* comparison that needs its own result does not return.
RECURSIVE equalsRec(_, _, _, _, _)
RECURSIVE equalsSources(_, _, _, _, _, _)
equalsRec(h, a, b, cache, busy) ==
    IF ~selfEquals(h, a, b) THEN [ret |-> "false", cache |-> cache]
    ELSE IF <<a, b>> \in cache.eq THEN [ret |-> "true", cache |-> cache]
    ELSE IF <<a, b>> \in cache.ne THEN [ret |-> "false", cache |-> cache]
    ELSE IF <<a, b>> \in busy THEN [ret |-> "diverges", cache |-> cache]
    ELSE LET r == equalsSources(h, a, b, 0, cache, busy \cup {<<a, b>>}) IN
         IF r.ret = "true" THEN [ret |-> "true", cache |-> [r.cache EXCEPT !.eq = @ \cup {<<a, b>>}]]
         ELSE IF r.ret = "false"
              THEN [ret |-> "false", cache |-> [r.cache EXCEPT !.ne = @ \cup {<<a, b>>}]]
         ELSE r

\* The operands i, i + 1, ... of a and b are equal pair by pair; a slot vacant in
\* both is passed over, a slot vacant in one only makes the vertices differ
equalsSources(h, a, b, i, cache, busy) ==
    LET sa == h.sourcep[<<a, i>>]
        sb == h.sourcep[<<b, i>>]
    IN IF i >= Arity(h.type[a]) THEN [ret |-> "true", cache |-> cache]
       ELSE IF sa = NULL /\ sb = NULL THEN equalsSources(h, a, b, i + 1, cache, busy)
       ELSE IF sa = NULL \/ sb = NULL THEN [ret |-> "false", cache |-> cache]
       ELSE LET r == equalsRec(h, sa, sb, cache, busy) IN
            IF r.ret = "true" THEN equalsSources(h, a, b, i + 1, r.cache, busy)
            ELSE r

\* DfgVertex::equals(that): "true", "false", or "diverges" when the call does
\* not return
equals(h, a, b) == equalsRec(h, a, b, EmptyCache, {}).ret

\* DfgVertex::hash: the heap after the call, the hash returned, and whether the
\* call returned.  The hash is kept in the user data of the vertex; busy holds
\* the vertices whose hash is being computed.
RECURSIVE hashRec(_, _, _)
RECURSIVE hashSources(_, _, _, _, _)
hashRec(h, v, busy) ==
    IF v \in busy THEN [heap |-> h, ret |-> DefaultValue, ok |-> FALSE]
    ELSE LET h1 == user(h, v) IN
         IF h1.fatal # NoFatal THEN [heap |-> h1, ret |-> DefaultValue, ok |-> FALSE]
         ELSE IF h1.storage[v] # DefaultValue
              THEN [heap |-> h1, ret |-> h1.storage[v], ok |-> TRUE]
         ELSE LET r == hashSources(h1, v, 0, selfHash(h1, v), busy \cup {v}) IN
              IF r.ok THEN [r EXCEPT !.heap.storage[v] = r.ret] ELSE r

\* The hash acc combined with the hashes of the operands i, i + 1, ... of v, in
\* operand order; a vacant slot is passed over
hashSources(h, v, i, acc, busy) ==
    IF i >= Arity(h.type[v]) THEN [heap |-> h, ret |-> acc, ok |-> TRUE]
    ELSE IF h.sourcep[<<v, i>>] = NULL THEN hashSources(h, v, i + 1, acc, busy)
    ELSE LET r == hashRec(h, h.sourcep[<<v, i>>], busy) IN
         IF r.ok THEN hashSources(r.heap, v, i + 1, Combine(acc, r.ret), busy)
         ELSE r

\* The heap after a call of hash() with result r: a call that does not return
\* ends the program
AfterHash(r) ==
    IF r.ok \/ r.heap.fatal # NoFatal THEN r.heap ELSE Fail(r.heap, Diverged)

\* x = v.hash();
Hash(v) ==
    /\ Running
    /\ m_graphp[v] # NULL
    /\ LET r == hashRec(Heap, v, {}) IN
       /\ Commit(AfterHash(r))
       /\ lastCall' = [NoCall EXCEPT !.op = "hash", !.v = v, !.ret = <<r.ret>>,
                          !.note = IF r.ok THEN "returned" ELSE "failed"]
    /\ UNCHANGED <<guardVars, VL_DEBUG, userHist, iterVars>>

\* x = a.equals(b); ha = a.hash(); hb = b.hash();
EqualsAndHash(a, b) ==
    /\ Running
    /\ m_graphp[a] # NULL
    /\ m_graphp[b] # NULL
    /\ LET x == equals(Heap, a, b)
           ra == hashRec(Heap, a, {})
           rb == hashRec(ra.heap, b, {})
       IN IF x = "diverges"
          THEN /\ Commit(Fail(Heap, Diverged))
               /\ lastCall' = [NoCall EXCEPT !.op = "equalsHash", !.v = a, !.tag = b,
                                  !.note = "failed"]
          ELSE IF ~ra.ok
          THEN /\ Commit(AfterHash(ra))
               /\ lastCall' = [NoCall EXCEPT !.op = "equalsHash", !.v = a, !.tag = b,
                                  !.note = "failed"]
          ELSE /\ Commit(AfterHash(rb))
               /\ lastCall' = [NoCall EXCEPT !.op = "equalsHash", !.v = a, !.tag = b,
                                  !.ret = <<x, ra.ret, rb.ret>>,
                                  !.note = IF rb.ok THEN "returned" ELSE "failed"]
    /\ UNCHANGED <<guardVars, VL_DEBUG, userHist, iterVars>>

\* The types vertex v may have in the graph whose vertices are compared
HashTypesOf(v) == IF v = 1 THEN {"VarPacked", "Const"} ELSE {"Const", "Not", "Add"}

\* Graph 1 holds all the vertices, constructed in order and with no edge
\* linked
InitHash ==
    /\ \E t \in [Vertices -> Types] :
          /\ \A v \in Vertices : t[v] \in HashTypesOf(v)
          /\ HeapIs(ConstructTyped(EmptyHeap, 1, [v \in Vertices |-> v], t))
    /\ guardLive = {}
    /\ guardGraphp = [k \in Guards |-> NULL]
    /\ VL_DEBUG = FALSE
    /\ lastCall = NoCall
    /\ touched = [v \in Vertices |-> "added"]
    /\ shadow = [v \in Vertices |-> DefaultValue]
    /\ iter = IdleIter
    /\ visited = <<>>
    /\ walk = IdleWalk

\* The operands are linked before the first session of the graph; hashes are
\* read and vertices compared in a session
NextHash ==
    \/ \E v \in Vertices, Index \in SlotIdx, n \in Vertices :
          m_userCnt[1] = 0 /\ RelinkSource(v, Index, n)
    \/ \E e \in Edges : m_userCnt[1] = 0 /\ UnlinkSource(e)
    \/ UserDataInUse(1, 1)
    \/ GuardDestroy(1)
    \/ \E v \in Vertices : m_userCurrent[1] # 0 /\ Hash(v)
    \/ \E a, b \in Vertices : m_userCurrent[1] # 0 /\ a # b /\ EqualsAndHash(a, b)

SpecHash == InitHash /\ [][NextHash]_vars

\* ================================================================== claims
\* The live guards that refer to graph g
GuardsOf(g) == {k \in guardLive : guardGraphp[k] = g}

\* C1: a call of userDataInUse() on a graph whose guard from an earlier call is
\* still alive (a live guard keeps the marker of its graph non-zero) fails with
\* "Conflicting use of DfgVertex user data", so no graph ever has two live
\* guards, that is two sessions in use.
C1_OneSessionPerGraph ==
    /\ \A g \in Graphs : GuardsOf(g) # {} => m_userCurrent[g] # 0
    /\ lastCall.op = "userDataInUse" /\ lastCall.note = "inUse"
          => fatal = FatalConflict
    /\ \A g \in Graphs : Cardinality(GuardsOf(g)) <= 1

\* A call on a graph in use, whose guard is alive, has failed
C1_Witness ==
    /\ lastCall.op = "userDataInUse"
    /\ fatal = FatalConflict
    /\ GuardsOf(lastCall.g) # {}

\* C5: a call of userDataInUse() on a graph not in use adds one to the 32-bit
\* counter of the graph; when the sum wraps to 0 the call fails with
\* "'m_userCnt' overflow", the graph stays not in use and no guard is made;
\* otherwise the call succeeds and the generation in use is the new, non-zero
\* count.  A generation in use is always the count of its graph.
C5_CounterOverflowIsFatal ==
    /\ \A g \in Graphs : m_userCurrent[g] # 0 => m_userCurrent[g] = m_userCnt[g]
    /\ lastCall.op = "userDataInUse" /\ lastCall.note = "free"
          => LET g == lastCall.g IN
             /\ m_userCnt[g] = Inc32(lastCall.tag)
             /\ IF lastCall.tag = UserCntMax
                THEN /\ m_userCnt[g] = 0
                     /\ fatal = FatalOverflow
                     /\ m_userCurrent[g] = 0
                     /\ GuardsOf(g) = {}
                ELSE /\ m_userCnt[g] # 0
                     /\ fatal = NoFatal
                     /\ m_userCurrent[g] = m_userCnt[g]
                     /\ Cardinality(GuardsOf(g)) = 1

\* The call made when the counter was 2^32 - 1 has failed
C5_Witness ==
    /\ lastCall.op = "userDataInUse"
    /\ lastCall.tag = UserCntMax
    /\ fatal = FatalOverflow

\* The cases of a call of user<T>() that is the first access of the slot in the
\* session in use
FirstTouch == {"first", "afterOld", "afterAdd", "afterAddSameTag"}

\* C2: in a session, a call of user<T>() on a vertex whose slot was not
\* written in that session leaves the default value in the slot it returns,
\* also when the slot holds a value written in an earlier session of the graph.
C2_FirstReadIsDefault ==
    lastCall.op = "user" /\ lastCall.note \in FirstTouch /\ fatal = NoFatal
        => m_userDataStorage[lastCall.v] = DefaultValue

\* The first read in a session of a slot that held a value, not the default,
\* written in an earlier session
C2_Witness ==
    /\ lastCall.op = "user"
    /\ lastCall.note = "afterOld"
    /\ fatal = NoFatal

\* C3: while a session is in use, the first call of user<T>() on a vertex
\* value-initializes the slot and tags it with the generation in use; a slot
\* accessed in the session keeps that tag and holds the value last stored in
\* it, through the reference user<T>() returned or by setUser, whatever calls
\* of user<T>() were made since.
C3_LazyInitOnce ==
    /\ lastCall.op = "user" /\ lastCall.note \in FirstTouch /\ fatal = NoFatal
          => /\ v_userCnt[lastCall.v] = m_userCurrent[lastCall.g]
             /\ m_userDataStorage[lastCall.v] = DefaultValue
    /\ \A v \in Vertices :
          InSession(v) /\ touched[v] = "touched" /\ fatal = NoFatal
             => /\ v_userCnt[v] = m_userCurrent[m_graphp[v]]
                /\ m_userDataStorage[v] = shadow[v]

\* A later call of user<T>() in the session returned a value, not the default,
\* that was stored before
C3_Witness ==
    /\ lastCall.op = "user"
    /\ lastCall.note = "again"
    /\ fatal = NoFatal
    /\ m_userDataStorage[lastCall.v] # DefaultValue
    /\ m_userDataStorage[lastCall.v] = shadow[lastCall.v]

\* The step is the destruction of the guard of a session
GuardDestroyed == lastCall'.op = "guardDestroy" /\ lastCall'.g # NULL

\* The destruction of a guard zeroes the marker of its graph and leaves the
\* value and the tag of every vertex as they were
DestroyClears ==
    GuardDestroyed
        => /\ m_userCurrent'[lastCall'.g] = 0
           /\ fatal' = NoFatal
           /\ v_userCnt' = v_userCnt
           /\ m_userDataStorage' = m_userDataStorage

\* The marker of a graph not in use stays 0 until a call of userDataInUse() on
\* that graph
MarkerStaysClear ==
    \A g \in Graphs :
        m_userCurrent[g] = 0 /\ m_userCurrent'[g] # 0
            => lastCall'.op = "userDataInUse" /\ lastCall'.g = g

\* The step is a call of userDataInUse() on the graph whose guard was destroyed
\* by the step before
AcquireAfterDestroy ==
    /\ lastCall.op = "guardDestroy"
    /\ lastCall'.op = "userDataInUse"
    /\ lastCall'.g = lastCall.g

\* C4 as stated: the destruction of the guard zeroes the marker and changes no
\* value or tag, and the next userDataInUse() on the graph succeeds.
C4_Original ==
    [][/\ DestroyClears
       /\ MarkerStaysClear
       /\ AcquireAfterDestroy => fatal' = NoFatal]_vars

\* C4: the destruction of the guard of a session zeroes the marker of the
\* graph and changes no value or tag of a vertex; the marker then stays 0
\* until the next userDataInUse() on that graph, which does not fail with
\* "Conflicting use of DfgVertex user data" and succeeds, starting a session,
\* unless the counter of the graph is 2^32 - 1.
C4_ReleaseAllowsNextSession ==
    [][/\ DestroyClears
       /\ MarkerStaysClear
       /\ lastCall'.op = "userDataInUse" /\ m_userCurrent[lastCall'.g] = 0
             => /\ fatal' # FatalConflict
                /\ m_userCnt[lastCall'.g] # UserCntMax
                      => fatal' = NoFatal /\ m_userCurrent'[lastCall'.g] # 0]_vars

\* A second session of a graph is in use: the guard of the first was destroyed
C4_Witness ==
    /\ lastCall.op = "userDataInUse"
    /\ fatal = NoFatal
    /\ lastCall.tag > 0
    /\ m_userCurrent[lastCall.g] = Inc32(lastCall.tag)

\* C6: addVertex zeroes the tag of the vertex, so the first user<T>() on the
\* vertex in a session of the graph it was added to leaves the default value
\* in the slot and tags it with the generation in use, also when the vertex
\* came from a graph where its tag was the number of that generation.
C6_AddVertexResetsTag ==
    /\ lastCall.op = "addVertex"
          => v_userCnt[lastCall.v] = 0 /\ m_graphp[lastCall.v] = lastCall.g
    /\ (/\ lastCall.op = "user"
        /\ lastCall.note \in {"afterAdd", "afterAddSameTag"}
        /\ fatal = NoFatal)
          => /\ m_userDataStorage[lastCall.v] = DefaultValue
             /\ v_userCnt[lastCall.v] = m_userCurrent[lastCall.g]

\* The first access of a vertex that holds a value, not the default, and came
\* from a graph where its tag was the number of the generation in use here
C6_Witness ==
    /\ lastCall.op = "user"
    /\ lastCall.note = "afterAddSameTag"
    /\ fatal = NoFatal

\* The sink list of the vertex p contains the edge e
InSinksOf(p, e) == e \in SeqSet(m_sinksp[p])

\* C7 as stated: after e.relinkSource(v), where p was the source of e, the
\* source of e is v, the sink list of v contains e, and the sink list of p
\* does not contain e.
C7_Original ==
    lastCall.op = "relinkSource" /\ fatal = NoFatal
        => /\ m_sourcep[lastCall.e] = lastCall.v
           /\ InSinksOf(lastCall.v, lastCall.e)
           /\ lastCall.tag # NULL => ~InSinksOf(lastCall.tag, lastCall.e)

\* C7: after e.relinkSource(v), where p was the source of e, the source of e
\* is v, the sink list of v contains e once, and the sink list of p, when p is
\* a vertex other than v, does not contain e.
C7_RelinkSourcePost ==
    lastCall.op = "relinkSource" /\ fatal = NoFatal
        => /\ m_sourcep[lastCall.e] = lastCall.v
           /\ SeqCount(m_sinksp[lastCall.v], lastCall.e) = 1
           /\ lastCall.tag # NULL /\ lastCall.tag # lastCall.v
                 => ~InSinksOf(lastCall.tag, lastCall.e)

\* An edge was moved from one source to another
C7_Witness ==
    /\ lastCall.op = "relinkSource"
    /\ lastCall.note = "moved"
    /\ fatal = NoFatal
    /\ m_sourcep[lastCall.e] = lastCall.v

\* C8: a step of unlinkSource or relinkSource on the edge e changes no sink
\* vertex of an edge, no source of an edge other than e, no sink list of a
\* vertex other than the old and the new source of e, and in those two lists
\* nothing but the membership of e; the vertex lists, the size and the
\* vertices of every graph stay as they were.
C8_EdgeOpFrame ==
    [][lastCall'.op \in {"unlinkSource", "relinkSource"}
          => LET e == lastCall'.e IN
             /\ m_sinkp' = m_sinkp
             /\ \A f \in Edges \ {e} : m_sourcep'[f] = m_sourcep[f]
             /\ \A w \in Vertices \ {m_sourcep[e], m_sourcep'[e]} :
                   m_sinksp'[w] = m_sinksp[w]
             /\ \A w \in Vertices :
                   SeqRemove(m_sinksp'[w], e) = SeqRemove(m_sinksp[w], e)
             /\ UNCHANGED <<m_varVertices, m_constVertices, m_opVertices, m_size,
                            m_graphp, m_type>>]_vars

\* An edge was moved from one source to another while another edge had a third
\* vertex as its source
C8_Witness ==
    /\ lastCall.op = "relinkSource"
    /\ lastCall.note = "moved"
    /\ \E f \in Edges \ {lastCall.e} :
          /\ m_sourcep[f] # NULL
          /\ m_sourcep[f] \notin {lastCall.v, lastCall.tag}

\* After the step v.replaceWith(n): every edge v was the source of has n as
\* its source, every edge n was the source of still has, and no edge changed
\* its sink vertex
ReplacedBy(v, n) ==
    /\ \A e \in Edges : m_sourcep[e] = v => m_sourcep'[e] = n
    /\ \A e \in Edges : m_sourcep[e] = n => m_sourcep'[e] = n
    /\ m_sinkp' = m_sinkp

\* C9 as stated: after v.replaceWith(n), for any v and any n, v has no sinks,
\* the edges of v are edges of n, and the edges of n still are.
C9_Original ==
    [][lastCall'.op = "replaceWith"
          => /\ m_sinksp'[lastCall'.v] = <<>>
             /\ ReplacedBy(lastCall'.v, lastCall'.tag)]_vars

\* C9: after v.replaceWith(n), for any v and any n other than v, v has no
\* sinks, the edges v was the source of have n as their source with their sink
\* vertex and operand index as before, the edges n was the source of still
\* have, and the sinks of n are those of n and of v before.
C9_ReplaceWithPost ==
    [][lastCall'.op = "replaceWith" /\ lastCall'.v # lastCall'.tag
          => /\ m_sinksp'[lastCall'.v] = <<>>
             /\ ReplacedBy(lastCall'.v, lastCall'.tag)
             /\ SeqSet(m_sinksp'[lastCall'.tag])
                   = SeqSet(m_sinksp[lastCall'.tag]) \cup SeqSet(m_sinksp[lastCall'.v])]_vars

\* A vertex that had sinks was replaced by another vertex that had sinks
C9_Witness ==
    /\ lastCall.op = "replaceWith"
    /\ lastCall.note = "bothSinks"
    /\ lastCall.v # lastCall.tag
    /\ m_sinksp[lastCall.v] = <<>>
    /\ Len(m_sinksp[lastCall.tag]) >= 2

\* C10: while the callback of forEachVertex has removed or deleted no vertex
\* but the one it was given, no vertex is visited twice, so a removed vertex is
\* not visited again, only vertices that were in the graph when the iteration
\* began are visited, and when forEachVertex returns every one of them was
\* visited.
C10_ForEachVertexSafeRemoval ==
    ~iter.broken
        => /\ \A v \in Vertices : SeqCount(visited, v) <= 1
           /\ SeqSet(visited) \subseteq iter.start
           /\ iter.removed \subseteq SeqSet(visited)
           /\ iter.pc = "done" => SeqSet(visited) = iter.start

\* forEachVertex is about to return after a callback removed or deleted the
\* vertex it was given while the list had a vertex after it
C10_Witness ==
    /\ iter.pc = "done"
    /\ ~iter.broken
    /\ iter.pastRemoved
    /\ Cardinality(iter.start) >= 2
    /\ SeqSet(visited) = iter.start

\* The vertices of graph g in the order of its three lists: the variables, the
\* constants, the operations
InListOrder(g) == m_varVertices[g] \o m_constVertices[g] \o m_opVertices[g]

\* s is the beginning of t
IsPrefix(s, t) == Len(s) <= Len(t) /\ s = SubSeq(t, 1, Len(s))

\* C11: while the callback changes nothing, either overload of forEachVertex
\* has visited a beginning of the variables, then the constants, then the
\* operations of the graph, each list in its order; when it returns it has
\* visited all of them, which is every vertex of the graph exactly once, so
\* both overloads visit the same sequence.
C11_ForEachVertexOrder ==
    iter.pc # "idle" /\ iter.removed = {} /\ ~iter.broken
        => /\ IsPrefix(visited, InListOrder(iter.g))
           /\ iter.pc = "done"
                 => /\ visited = InListOrder(iter.g)
                    /\ \A v \in Vertices :
                          SeqCount(visited, v) = IF m_graphp[v] = iter.g THEN 1 ELSE 0

\* The const overload is about to return from a graph that has a variable, a
\* constant and an operation
C11_Witness ==
    /\ iter.pc = "done"
    /\ iter.overload = "const"
    /\ m_varVertices[iter.g] # <<>>
    /\ m_constVertices[iter.g] # <<>>
    /\ m_opVertices[iter.g] # <<>>
    /\ visited = InListOrder(iter.g)

\* C12: while the callback of forEachSinkEdge has changed no edge but, by
\* unlinking or relinking it, the edge it was given, the loop reads the next
\* pointer of no edge that is unlinked or deleted, only edges that were in
\* the sink list when the iteration began are visited, none of those the
\* callback left as they were is visited twice, and when forEachSinkEdge
\* returns every one of them was visited.
C12_ForEachSinkEdgeSafe ==
    walk.kind = "forEachSinkEdge" /\ ~walk.broken
        => /\ walk.pc # "undefined"
           /\ SeqSet(walk.seen) \subseteq SeqSet(walk.start)
           /\ \A e \in SeqSet(walk.start) \ walk.changed :
                 /\ SeqCount(walk.seen, e) <= 1
                 /\ walk.pc = "done" => SeqCount(walk.seen, e) = 1

\* forEachSinkEdge is about to return; its callback unlinked or relinked an
\* edge and left alone another edge that came after it in the list
C12_Witness ==
    /\ walk.kind = "forEachSinkEdge"
    /\ walk.pc = "done"
    /\ ~walk.broken
    /\ \E i, j \in 1 .. Len(walk.seen) :
          /\ i < j
          /\ walk.seen[i] \in walk.changed
          /\ walk.seen[j] \notin walk.changed

\* C13: while the callback of forEachSink has unlinked or deleted no sink but
\* the one it was given, the edge the loop goes on with, which it reads, is
\* never an edge of a sink the callback unlinked or deleted.
C13_ForEachSinkNeverReadsGone ==
    walk.kind = "forEachSink" /\ walk.pc = "loop" /\ ~walk.broken
        => walk.edgep[1] \notin walk.gone

\* The operand slots of v below index n that have a source
LinkedSlots(v, n) == {i \in SlotIdx : i < n /\ m_sourcep[<<v, i>>] # NULL}

\* The walk has passed edges of walk.v only, in increasing order of their index
InIndexOrder ==
    \A k \in 1 .. Len(walk.seen) :
        /\ walk.seen[k][1] = walk.v
        /\ walk.seen[k][2] < walk.i
        /\ k > 1 => walk.seen[k - 1][2] < walk.seen[k][2]

\* C14: forEachSource calls its callback for operand slots in increasing
\* order of their index, passing the source of the slot; after round i it has
\* called it once for each slot up to i that has a source and for no slot
\* that has none; it returns after the last slot.
C14_ForEachSourceLinkedSlots ==
    walk.kind = "forEachSource"
        => /\ InIndexOrder
           /\ {walk.seen[k][2] : k \in 1 .. Len(walk.seen)} = LinkedSlots(walk.v, walk.i)
           /\ Len(walk.passed) = Len(walk.seen)
           /\ \A k \in 1 .. Len(walk.seen) :
                 walk.passed[k] = m_sourcep[walk.seen[k]] /\ walk.passed[k] # NULL
           /\ walk.pc = "done" => walk.i = Arity(m_type[walk.v])

\* forEachSource is about to return from a vertex whose first operand slot has
\* no source and whose second has one, which it passed
C14_Witness ==
    /\ walk.kind = "forEachSource"
    /\ walk.pc = "done"
    /\ m_sourcep[<<walk.v, 0>>] = NULL
    /\ walk.seen = <<<<walk.v, 1>>>>
    /\ walk.passed = <<m_sourcep[<<walk.v, 1>>]>>

\* C15 as stated: forEachSourceEdge and findSourceEdge pass no edge that has
\* no source to their callback or predicate.
C15_Original ==
    walk.kind \in {"forEachSourceEdge", "findSourceEdge"}
        => \A k \in 1 .. Len(walk.seen) : m_sourcep[walk.seen[k]] # NULL

\* C15: forEachSource passes no edge that has no source.  forEachSourceEdge
\* and findSourceEdge pass the edge of every operand slot, with a source or
\* not, in increasing order of the index: after round i the edges of all the
\* slots up to i; findSourceEdge returns the first edge its predicate holds
\* for and stops there, or returns none after the last slot.
C15_EdgeHelpersPassEverySlot ==
    /\ walk.kind = "forEachSource"
          => \A k \in 1 .. Len(walk.seen) : m_sourcep[walk.seen[k]] # NULL
    /\ walk.kind \in {"forEachSourceEdge", "findSourceEdge"}
          => /\ InIndexOrder
             /\ {walk.seen[k][2] : k \in 1 .. Len(walk.seen)} = 0 .. walk.i - 1
             /\ walk.pc = "done"
                   => \/ walk.i = Arity(m_type[walk.v]) /\ walk.edgep = NoEdge
                      \/ /\ walk.kind = "findSourceEdge"
                         /\ walk.edgep = <<walk.v, walk.i - 1>>

\* forEachSourceEdge is about to return and has passed an edge with no source
C15_Witness ==
    /\ walk.kind = "forEachSourceEdge"
    /\ walk.pc = "done"
    /\ \E k \in 1 .. Len(walk.seen) : m_sourcep[walk.seen[k]] = NULL
    /\ \E k \in 1 .. Len(walk.seen) : m_sourcep[walk.seen[k]] # NULL

\* The graphs whose vertex lists hold vertex v
GraphsHolding(v) == {g \in Graphs : v \in Contained(Heap, g)}

\* C16: a vertex is in the vertex lists of at most one graph, and m_graphp of
\* the vertex is that graph, or null when the vertex is in no graph; after
\* addVertex on a vertex that was in no graph the vertex is in the lists of
\* that graph and of no other, and after removeVertex on a vertex of a graph
\* the vertex is in the lists of no graph.
C16_OneGraphPerVertex ==
    /\ \A v \in Vertices :
          /\ Cardinality(GraphsHolding(v)) <= 1
          /\ GraphsHolding(v) = IF m_graphp[v] = NULL THEN {} ELSE {m_graphp[v]}
    /\ lastCall.op = "addVertex" => GraphsHolding(lastCall.v) = {lastCall.g}
    /\ lastCall.op = "removeVertex" => GraphsHolding(lastCall.v) = {}

\* A vertex was removed from one graph and added to the other, which holds
\* another vertex too
C16_Witness ==
    /\ lastCall.op = "addVertex"
    /\ lastCall.note = "moved"
    /\ GraphsHolding(lastCall.v) = {lastCall.g}
    /\ m_size[lastCall.g] >= 2

\* The numbers of the lists of graph g that hold vertex v, a list counted
\* once for every entry of v in it
ListsHolding(g, v) ==
    {p \in (1 .. 3) \X (1 .. NumVertices) :
        p[2] <= Len(ListOf(Heap, g, p[1])) /\ ListOf(Heap, g, p[1])[p[2]] = v}

\* The list a vertex of type t belongs to: 1 the variables, 2 the constants,
\* 3 the operations
ListOfKind(t) == IF IsConst(t) THEN 2 ELSE IF IsVertexVar(t) THEN 1 ELSE 3

\* C17: every vertex of a graph has one entry in the three lists of the graph,
\* in the list of its kind: a constant in m_constVertices, a variable in
\* m_varVertices, any other vertex in m_opVertices.
C17_ListByKind ==
    \A g \in Graphs : \A v \in Vertices :
        m_graphp[v] = g
            => /\ Cardinality(ListsHolding(g, v)) = 1
               /\ \A p \in ListsHolding(g, v) : p[1] = ListOfKind(m_type[v])

\* A graph holds a variable, a constant and an operation, the last of them
\* put back by addVertex after removeVertex
C17_Witness ==
    /\ lastCall.op = "addVertex"
    /\ lastCall.note = "back"
    /\ \E g \in Graphs :
          /\ m_varVertices[g] # <<>>
          /\ m_constVertices[g] # <<>>
          /\ m_opVertices[g] # <<>>

\* C18: m_size of a graph is the number of entries of its three lists.
C18_SizeIsListLength ==
    \A g \in Graphs :
        m_size[g] = Len(m_varVertices[g]) + Len(m_constVertices[g]) + Len(m_opVertices[g])

\* A vertex was deleted by unlinkDelete from a graph that addGraph had filled
\* and that holds vertices still
C18_Witness ==
    /\ lastCall.op = "unlinkDelete"
    /\ lastCall.tag = 1
    /\ m_size[lastCall.g] >= 1
    /\ \E g \in Graphs : g # lastCall.g /\ m_size[g] = 0

\* C19: after g.addGraph(o), o a graph other than g, the lists of o are empty
\* and its size is 0, each list of g holds what it held and what the list of
\* the same kind of o held, the size of g is the sum of the two sizes, every
\* vertex that was in o has m_graphp g and tag 0, and no edge has another source
\* or sink.
C19_AddGraphPost ==
    [][lastCall'.op = "addGraph"
          => LET g == lastCall'.g
                 o == lastCall'.v
             IN /\ Contained(Heap', o) = {}
                /\ m_size'[o] = 0
                /\ \A L \in 1 .. 3 :
                      /\ SeqSet(ListOf(Heap', g, L))
                            = SeqSet(ListOf(Heap, g, L)) \cup SeqSet(ListOf(Heap, o, L))
                      /\ Len(ListOf(Heap', g, L))
                            = Len(ListOf(Heap, g, L)) + Len(ListOf(Heap, o, L))
                /\ m_size'[g] = m_size[g] + m_size[o]
                /\ \A v \in Contained(Heap, o) : m_graphp'[v] = g /\ v_userCnt'[v] = 0
                /\ m_sourcep' = m_sourcep
                /\ m_sinkp' = m_sinkp
                /\ m_sinksp' = m_sinksp]_vars

\* A graph that held vertices took the vertices of a graph in which a vertex
\* had a tag that was not 0
C19_Witness ==
    /\ lastCall.op = "addGraph"
    /\ lastCall.note = "movedTagged"
    /\ m_size[lastCall.g] >= 2
    /\ m_size[lastCall.v] = 0

\* C20: after v.unlinkDelete(g), v a vertex of g that has no sinks, v is in
\* none of the lists of g, the size of g is one less, and no sink list holds
\* an edge of v.
C20_UnlinkDeletePost ==
    [][lastCall'.op = "unlinkDelete"
          => LET g == lastCall'.g
                 v == lastCall'.v
             IN /\ v \notin Contained(Heap', g)
                /\ m_size'[g] = m_size[g] - 1
                /\ \A w \in Vertices : \A e \in SeqSet(m_sinksp'[w]) : e[1] # v]_vars

\* A vertex that had a linked operand was deleted
C20_Witness ==
    /\ lastCall.op = "unlinkDelete"
    /\ lastCall.note = "hadSources"
    /\ m_graphp[lastCall.v] = NULL
    /\ m_type[lastCall.v] = NoType

\* The edges whose source is vertex v
EdgesFrom(v) == {e \in Edges : m_sourcep[e] = v}

\* C21: for every vertex, fanout() is the number of edges whose source is the
\* vertex, hasSinks() is true exactly when fanout() >= 1, and
\* hasMultipleSinks() is true exactly when fanout() >= 2.
C21_FanoutAndSinkPredicates ==
    \A v \in Vertices :
        m_type[v] # NoType
            => /\ fanout(Heap, v) = Cardinality(EdgesFrom(v))
               /\ hasSinks(Heap, v) <=> fanout(Heap, v) >= 1
               /\ hasMultipleSinks(Heap, v) <=> fanout(Heap, v) >= 2

\* After a vertex was replaced there is a vertex with one sink, a vertex with
\* two sinks or more and a vertex with none
C21_Witness ==
    /\ lastCall.op = "replaceWith"
    /\ lastCall.note = "bothSinks"
    /\ \E v \in Vertices : fanout(Heap, v) = 1 /\ hasSinks(Heap, v)
    /\ \E v \in Vertices : fanout(Heap, v) >= 2 /\ hasMultipleSinks(Heap, v)
    /\ \E v \in Vertices : m_type[v] # NoType /\ ~hasSinks(Heap, v)

\* The numbers of the edges of the buffer of capacity n that begins at srcsp
BufferOf(srcsp, n) == srcsp .. srcsp + n - 1

\* C27: when addSource is called on a vertex of variable arity whose capacity
\* is used up, the capacity doubles, every index below the old count has in
\* the new buffer the source it had in the old one (none when it had none),
\* the sink list of every such source holds the edge of the new buffer, no
\* sink list holds an edge of the old buffer, and the fanout of every vertex
\* is what it was.
C27_GrowSourcesKeepsSources ==
    [][(lastCall'.op = "addSource" /\ m_srcCnt[lastCall'.v] = m_srcCap[lastCall'.v])
          => LET v == lastCall'.v
                 oldsp == m_srcsp[v]
                 newsp == m_srcsp'[v]
             IN /\ m_srcCap'[v] = 2 * m_srcCap[v]
                /\ BufferOf(newsp, m_srcCap'[v]) \cap BufferOf(oldsp, m_srcCap[v]) = {}
                /\ \A i \in 0 .. m_srcCnt[v] - 1 :
                      /\ m_sourcep'[<<v, newsp + i>>] = m_sourcep[<<v, oldsp + i>>]
                      /\ m_sourcep[<<v, oldsp + i>>] # NULL
                            => SeqCount(m_sinksp'[m_sourcep[<<v, oldsp + i>>]],
                                        <<v, newsp + i>>) = 1
                /\ \A w \in Vertices : \A e \in SeqSet(m_sinksp'[w]) :
                      ~(e[1] = v /\ e[2] \in BufferOf(oldsp, m_srcCap[v]))
                /\ \A w \in Vertices : fanout(Heap', w) = fanout(Heap, w)]_vars

\* The buffer of two edges, one with a source and one with none, has grown to
\* four
C27_Witness ==
    /\ lastCall.op = "addSource"
    /\ lastCall.note = "grewMixed"
    /\ m_srcCap[lastCall.v] = 4
    /\ m_srcCnt[lastCall.v] = 3
    /\ \E i \in 0 .. 1 : m_sourcep[sourceEdge(Heap, lastCall.v, i)] # NULL

\* The step is a call of user<T>(), getUser<T>() or setUser() on a vertex
UserDataCall == lastCall'.op \in {"user", "userWrite", "getUser", "setUser"}

\* The step is such a call on a vertex whose graph has no session in use
CallWithoutSession == UserDataCall /\ m_userCurrent[m_graphp[lastCall'.v]] = 0

\* The step is a call of getUser<T>() on a vertex whose graph has a session in
\* use and whose tag is not the number of that session
GetUserOfStale ==
    /\ lastCall'.op = "getUser"
    /\ m_userCurrent[m_graphp[lastCall'.v]] # 0
    /\ v_userCnt[lastCall'.v] # m_userCurrent[m_graphp[lastCall'.v]]

\* The step ends the run with the fatal error msg, and no slot and no tag has
\* changed
FatalWith(msg) ==
    /\ fatal' = msg
    /\ m_userDataStorage' = m_userDataStorage
    /\ v_userCnt' = v_userCnt

\* C28 as stated: in any build, user<T>(), getUser<T>() and setUser() on a
\* vertex whose graph has no session in use are fatal and leave the slot as it
\* was, and getUser<T>() on a vertex whose tag is not the generation in use
\* is fatal.
C28_Original ==
    [][/\ CallWithoutSession => FatalWith(FatalNotReserved)
       /\ GetUserOfStale => FatalWith(FatalStale)]_vars

\* C28: in a debug build (VL_DEBUG), user<T>(), getUser<T>() and setUser() on
\* a vertex whose graph has no session in use end with the fatal error
\* 'DfgVertex user data used without reserving' and change no slot and no tag,
\* and getUser<T>() on a vertex whose graph has a session in use and whose
\* tag is not the number of that session ends with 'DfgVertex user data is
\* stale'.
C28_DebugBuildChecksUse ==
    [][VL_DEBUG => /\ CallWithoutSession => FatalWith(FatalNotReserved)
                   /\ GetUserOfStale => FatalWith(FatalStale)]_vars

\* getUser<T>() of a debug build has ended the run on a vertex that holds a
\* value of an earlier session
C28_Witness ==
    /\ VL_DEBUG
    /\ lastCall.op = "getUser"
    /\ fatal = FatalStale
    /\ m_userCurrent[lastCall.g] # 0
    /\ v_userCnt[lastCall.v] \notin {0, m_userCurrent[lastCall.g]}

\* The guards that exist and refer to graph g
HoldersOf(g) == {k \in guardLive : guardGraphp[k] = g}

\* C29: after any sequence of sessions acquired and of guards move-constructed,
\* move-assigned and destroyed, a graph that no guard refers to has its
\* in-use marker 0, and the destruction of a guard that was moved from leaves
\* every marker as it was.
C29_NoGuardNoMarker ==
    \A g \in Graphs : HoldersOf(g) = {} => m_userCurrent[g] = 0

\* C30: while the run has not ended with a fatal error, the tag of every
\* vertex of a graph is at most the generation counter of the graph, and is
\* the number of the session in use of the graph only if user<T>() or
\* setUser() was called on the vertex during that session; also after vertices
\* were moved between graphs by removeVertex and addVertex or by addGraph.
C30_TagsAreOfPastSessions ==
    fatal = NoFatal
        => \A v \in Vertices :
              m_graphp[v] # NULL
                  => /\ Le32(v_userCnt[v], m_userCnt[m_graphp[v]])
                     /\ (/\ m_userCurrent[m_graphp[v]] # 0
                         /\ v_userCnt[v] = m_userCurrent[m_graphp[v]])
                           => touched[v] = "touched"

\* A graph is in its second session or a later one, with a vertex tagged in an
\* earlier session and not touched in this one
C30_Witness ==
    /\ fatal = NoFatal
    /\ \E v \in Vertices :
          /\ InSession(v)
          /\ v_userCnt[v] # 0
          /\ v_userCnt[v] # m_userCurrent[m_graphp[v]]
          /\ touched[v] # "touched"

\* The vertex v has at most one consumer, or is a constant, or is a variable,
\* or is an array select whose index operand is a constant
InlineRule(v) ==
    \/ fanout(Heap, v) <= 1
    \/ IsConst(m_type[v])
    \/ IsVertexVar(m_type[v])
    \/ /\ IsArraySel(m_type[v])
       /\ bitp(Heap, v) # NULL
       /\ IsConst(m_type[bitp(Heap, v)])

\* C22: inlined() returns true when the vertex has at most one consumer, or is
\* a constant, or is a variable, or is an array select whose index operand is a
\* constant, and returns false in every other case.
C22_InlinedRule ==
    lastCall.op = "inlined"
        => lastCall.note = IF InlineRule(lastCall.v) THEN "true" ELSE "false"

\* There is an edge between a and b, in either direction
Joined(a, b) ==
    \E e \in Edges :
        /\ m_sinkp[e] # NULL
        /\ m_sourcep[e] # NULL
        /\ {m_sinkp[e], m_sourcep[e]} = {a, b}

\* The vertex v of graph g is weakly connected to a variable of g: a path of
\* vertices of g, each joined to the next by an edge, leads from v to a variable
WeaklyConnectedToVar(g, v) ==
    \E n \in 1 .. NumVertices : \E p \in [1 .. n -> VerticesOf(g)] :
        /\ p[1] = v
        /\ IsVertexVar(m_type[p[n]])
        /\ \A i \in 1 .. n - 1 : Joined(p[i], p[i + 1])

\* The returned graphs, by number, that hold vertex v
ReturnedWith(ret, v) == {k \in 1 .. Len(ret) : v \in ContainedIn(ret[k])}

\* C23: after splitIntoComponents the graph is empty, every vertex that was in
\* it is in one returned graph when it was weakly connected to a variable and
\* is deleted and in none when it was not, the returned graphs hold no other
\* vertex, and no edge has its source in one returned graph and its sink in
\* another.
C23_SplitIntoComponentsPost ==
    [][lastCall'.op = "splitIntoComponents"
          => LET g == lastCall'.g
                 ret == lastCall'.ret
             IN /\ Contained(Heap', g) = {}
                /\ m_size'[g] = 0
                /\ \A v \in VerticesOf(g) :
                      IF WeaklyConnectedToVar(g, v)
                      THEN /\ Cardinality(ReturnedWith(ret, v)) = 1
                           /\ m_type'[v] = m_type[v]
                           /\ \A k \in ReturnedWith(ret, v) : m_graphp'[v] = NumGraphs + k
                      ELSE /\ ReturnedWith(ret, v) = {}
                           /\ m_type'[v] = NoType
                /\ \A k \in 1 .. Len(ret) : ContainedIn(ret[k]) \subseteq VerticesOf(g)
                /\ \A e \in Edges :
                      (m_sinkp'[e] # NULL /\ m_sourcep'[e] # NULL)
                          => ReturnedWith(ret, m_sinkp'[e]) = ReturnedWith(ret, m_sourcep'[e])]_vars

\* Two graphs were returned, one of them with an edge between two vertices
C23_Witness ==
    /\ lastCall.op = "splitIntoComponents"
    /\ Len(lastCall.ret) >= 2
    /\ \E e \in Edges : m_sinkp[e] # NULL /\ m_sourcep[e] # NULL /\ m_sourcep[e] # m_sinkp[e]

\* In the next state an edge leads from a to b: a is its source and b its sink
EdgeTo(a, b) ==
    \E e \in Edges : m_sinkp'[e] = b /\ m_sourcep'[e] = a

\* In the next state the vertices S hold a directed cycle: a path of edges
\* from a vertex of S through vertices of S to itself
HasCycle(S) ==
    \E n \in 1 .. NumVertices : \E p \in [1 .. n + 1 -> S] :
        /\ p[1] = p[n + 1]
        /\ \A i \in 1 .. n : EdgeTo(p[i], p[i + 1])

\* In the next state the vertices S are weakly connected: any two are joined
\* by a path of edges, taken in either direction, through vertices of S
WeaklyConnected(S) ==
    \A a \in S : \A b \in S :
        \E n \in 1 .. NumVertices : \E p \in [1 .. n -> S] :
            /\ p[1] = a
            /\ p[n] = b
            /\ \A i \in 1 .. n - 1 : EdgeTo(p[i], p[i + 1]) \/ EdgeTo(p[i + 1], p[i])

\* C24: after extractCyclicComponents the vertices left in the graph hold no
\* directed cycle, and every returned graph holds a cycle and is weakly
\* connected.
C24_ExtractCyclicComponentsPost ==
    [][lastCall'.op = "extractCyclicComponents"
          => LET g == lastCall'.g
                 ret == lastCall'.ret
             IN /\ ~HasCycle(Contained(Heap', g))
                /\ \A k \in 1 .. Len(ret) :
                      /\ HasCycle(ContainedIn(ret[k]))
                      /\ WeaklyConnected(ContainedIn(ret[k]))
                      /\ \A v \in ContainedIn(ret[k]) : m_graphp'[v] = NumGraphs + k
                /\ \A v \in VerticesOf(g) :
                      m_graphp'[v] = g \/ ReturnedWith(ret, v) # {}]_vars

\* A graph of two vertices with a cycle was returned and a vertex was left
C24_Witness ==
    /\ lastCall.op = "extractCyclicComponents"
    /\ Len(lastCall.ret) >= 1
    /\ Cardinality(ContainedIn(lastCall.ret[1])) >= 2
    /\ m_size[lastCall.g] >= 1

\* C26: when a.equals(b) returns true, and both hashes are read in a session of
\* the graph during which no operand was relinked, a.hash() and b.hash() are the
\* same.
C26_EqualsImpliesSameHash ==
    [][(/\ lastCall'.op = "equalsHash"
        /\ lastCall'.note = "returned"
        /\ m_userCurrent[m_graphp[lastCall'.v]] # 0
        /\ lastCall'.ret[1] = "true")
          => lastCall'.ret[2] = lastCall'.ret[3]]_vars

\* Two distinct operations on a linked operand were found equal in a session,
\* the hash of the first read from the cache
C26_Witness ==
    /\ lastCall.op = "equalsHash"
    /\ lastCall.note = "returned"
    /\ lastCall.ret[1] = "true"
    /\ lastCall.v # lastCall.tag
    /\ m_userCurrent[1] # 0
    /\ Arity(m_type[lastCall.v]) > 0
    /\ m_sourcep[<<lastCall.v, 0>>] # NULL

\* The edge addSource returned in the step lies in the buffer allocated after it
ReturnedInBuffer ==
    lastCall'.e[2] \in BufferOf(m_srcsp'[lastCall'.v], m_srcCap'[lastCall'.v])

\* The arity of the vertex of variable arity counts the calls of addSource
\* since its construction or the last resetSources that returned
ArityCountsCalls ==
    LET v == VariadicVertex IN
    IF lastCall'.op = "addSource" THEN arity(Heap', v) = arity(Heap, v) + 1
    ELSE IF lastCall'.op = "resetSources"
         THEN fatal' = NoFatal => arity(Heap', v) = 0
    ELSE arity(Heap', v) = arity(Heap, v)

\* C31: for a vertex of variable arity constructed with any initial capacity,
\* 0 included, after any calls of addSource and resetSources the used slots
\* are no more than the capacity, every edge addSource returns lies in the
\* allocated buffer, and arity() is the number of addSource calls since the
\* construction or the last resetSources.
C31_SlotsWithinCapacity ==
    /\ arity(Heap, VariadicVertex) = 0
    /\ m_srcCnt[VariadicVertex] <= m_srcCap[VariadicVertex]
    /\ [][/\ m_srcCnt'[VariadicVertex] <= m_srcCap'[VariadicVertex]
          /\ lastCall'.op = "addSource" => ReturnedInBuffer
          /\ ArityCountsCalls]_vars

\* The operand slots through which the vertex s consumes the vertex v
SlotsFrom(s, v) == {i \in SlotIdx : i < Arity(m_type[s]) /\ m_sourcep[<<s, i>>] = v}

\* The callbacks of the walk changed nothing
NothingMutated == walk.changed = {} /\ walk.gone = {} /\ ~walk.broken

\* C32: when forEachSinkEdge or forEachSink returns and its callback changed
\* nothing, the callback was called once for every sink edge of the vertex and
\* for no other edge, fanout() times in all, and forEachSink passed every sink
\* as many times as the sink has operand slots that consume the vertex.
C32_OncePerSinkEdge ==
    (walk.kind \in SinkKinds /\ walk.pc = "done" /\ NothingMutated)
        => /\ Len(walk.seen) = fanout(Heap, walk.v)
           /\ \A e \in Edges :
                 SeqCount(walk.seen, e) = IF m_sourcep[e] = walk.v THEN 1 ELSE 0
           /\ walk.kind = "forEachSink"
                 => /\ Len(walk.passed) = fanout(Heap, walk.v)
                    /\ \A s \in Vertices :
                          SeqCount(walk.passed, s) = Cardinality(SlotsFrom(s, walk.v))

\* forEachSink is about to return; it passed twice a sink that consumes the
\* vertex through two operand slots, and once another sink
C32_Witness ==
    /\ walk.kind = "forEachSink"
    /\ walk.pc = "done"
    /\ NothingMutated
    /\ \E s \in Vertices :
          Cardinality(SlotsFrom(s, walk.v)) = 2 /\ SeqCount(walk.passed, s) = 2
    /\ \E s \in Vertices :
          Cardinality(SlotsFrom(s, walk.v)) = 1 /\ SeqCount(walk.passed, s) = 1

====
